---- MODULE Spec2Model ----
(***************************************************************************)
(* Model of the coding agent's control loop (agent/orchestrator.py), its   *)
(* data model (agent/models.py), its configuration (agent/config.py) and   *)
(* the context-window manager (agent/planning/context_manager.py), the      *)
(* change applier (agent/execution/code_generator.py) with its file        *)
(* operations (agent/tools/file_ops.py), the test runner                   *)
(* (agent/verification/test_runner.py), the script runner                  *)
(* (agent/execution/script_runner.py), the judge                           *)
(* (agent/verification/llm_judge.py), the provider layer                   *)
(* (agent/llm/base.py, agent/llm/factory.py), the sub-agent dispatcher     *)
(* (agent/planning/subagent.py) and the command line (cli/main.py).        *)
(*                                                                         *)
(* Conventions.                                                            *)
(*  - Optional[...] fields are records with a boolean field "set"; a       *)
(*    Python None is the record with set = FALSE.                          *)
(*  - quality scores are integers in hundredths (0.7 is 70).               *)
(*  - a Message is [role, tokens, id]: tokens is what                      *)
(*    llm_provider.count_tokens returns for its content, id tells two      *)
(*    messages with equal role and size apart.                             *)
(*  - a workspace path is <<directory, file name>>; a file's content is a  *)
(*    string, "absent" standing for a path with no file.                   *)
(*  - a backup file's name is <<file name, second>>: the original name     *)
(*    and the timestamp _backup_file formats to the second.                *)
(***************************************************************************)
EXTENDS Integers, Sequences, FiniteSets, TLC

\* ------------------------------------------------------------------ bounds
MaxN == 3            \* largest configured max_iterations explored
MaxChanges == 1      \* largest change set the provider proposes
MaxMsgs == 4         \* messages a client of ContextManager adds (SpecCtx)
MaxKeep == 2         \* largest keep_recent a client passes (SpecCtx)
MaxBatch == 2        \* longest change list handed to apply_changes (SpecApply)
MaxOutage == 3       \* most consecutive failing calls of a provider's generate
MaxDispatches == 2   \* dispatch() calls a dispatcher's clients make (SpecDispatch)
MaxRetries == 4      \* largest max_retries a client passes (SpecRetry)
MaxTasks == 2        \* tasks given to one orchestrator (SpecSession)

\* --------------------------------------------------------- program constants
QualityThreshold == 70       \* quality_score >= 0.7
FallbackGood == 70           \* judge fallback, tests look passed: 0.7
FallbackBad == 30            \* judge fallback otherwise: 0.3
DefaultKeepRecent == 5       \* compact_context(keep_recent=5)
DefaultMaxRetries == 3       \* generate_with_retry(max_retries=3)
SubAgentMaxIterations == 5   \* SubAgent(..., max_iterations=5) in dispatch
MaxFeedbackErrors == 3       \* error_messages[:3]
MaxFeedbackIssues == 5       \* issues[:5]
MaxFeedbackSuggestions == 3  \* suggestions[:3]
MaxErrorLines == 10          \* errors[:10]

\* ------------------------------------------------- inputs from collaborators
\* context_window_size values (tokens); both multiples of 5 so that the
\* 80% threshold is hit exactly by some history
ContextSizes == {5, 10}
\* count_tokens(content) of the messages the collaborators produce
SystemPromptTokens == 1      \* the system prompt run() adds
PlanPromptTokens == 1        \* a plan prompt
PlanTokens == 3              \* a non-empty plan response
FeedbackTokens == 1          \* a feedback message
SummaryTokens == 1           \* a summary message
\* sizes of the messages a client of ContextManager adds (SpecCtx)
MsgTokens == {1, 3}
\* quality_score a judge response may carry (hundredths): the schema asks for
\* [0,1] but json.loads accepts any number
JudgeScores == {-20, 70, 75, 130}
Roles == {"system", "user", "assistant"}

VARIABLES
    max_iterations,        \* AgentConfig.max_iterations
    max_context_size,      \* ContextManager.max_context_size
    conversation_history,  \* ContextManager.conversation_history
    nextId,                \* ids handed to new messages
    pc,                    \* next workflow node of the current run
    task_status,           \* state.task.status
    phase,                 \* state.phase
    iteration,             \* state.iteration
    should_continue,       \* state.should_continue
    completion_reason,     \* state.completion_reason ("None" when unset)
    planning_state,        \* state.planning_state
    execution_state,       \* state.execution_state
    verification_result,   \* state.verification_result
    result,                \* value returned by run()
    passes,                \* how often each node ran in the current run
    everSuccess,           \* some Analyzing pass of this run saw a passing verification
    lastCompact,           \* what the last compact_context call did
    lastCheck,             \* what the last should_compact call saw and returned
    fs,                    \* workspace files: path -> content
    backups,               \* backup directory: backup name -> content
    lastApply,             \* what the last apply_changes call was given and did
    lastGenerate,          \* how the last generate_code_changes call went
    project,               \* what framework detection finds in the workspace
    process,               \* the external process of the last call, after the call
    lastRun,               \* what the last run_tests / run_script / run_command did
    lastRequest,           \* how the last plan request of _planning_node went
    cli,                   \* the command-line session around the orchestrator
    active_subagents,      \* SubAgentDispatcher.active_subagents: task id -> holder
    dispatches,            \* the dispatch() calls of a SubAgentDispatcher's clients
    lastFeedback,          \* the feedback message the last Analyzing pass composed
    retry,                 \* a generate_with_retry call of a provider's client
    session                \* the tasks an orchestrator has been given so far

vars == <<max_iterations, max_context_size, conversation_history, nextId, pc,
          task_status, phase, iteration, should_continue,
          completion_reason, planning_state, execution_state,
          verification_result, result, passes, everSuccess, lastCompact,
          lastCheck, fs, backups, lastApply, lastGenerate, project, process,
          lastRun, lastRequest, cli, active_subagents, dispatches,
          lastFeedback, retry, session>>

diskVars == <<fs, backups, lastApply, lastGenerate>>

harnessVars == <<project, process, lastRun>>

sessionVars == <<cli, active_subagents, dispatches, retry, session>>

orchVars == <<pc, task_status, phase, iteration, should_continue,
              completion_reason, planning_state, execution_state,
              verification_result, result, passes, everSuccess, lastRequest,
              lastFeedback>>

Min2(a, b) == IF a <= b THEN a ELSE b

\* ------------------------------------------------------------ data model
Message(role, tokens, id) == [role |-> role, tokens |-> tokens, id |-> id]

NoPlanningState == [set |-> FALSE, plan |-> "None"]
NoExecutionState == [set |-> FALSE, code_changes |-> 0]
NoTestResult == [set |-> FALSE, passed |-> 0, failed |-> 0,
                 saysPassed |-> FALSE, saysFailed |-> FALSE]
NoVerificationResult ==
    [set |-> FALSE, tests_passed |-> FALSE, test_results |-> NoTestResult,
     judged |-> FALSE, quality_score |-> 0, llm_judgment |-> "None",
     issues |-> {}]
NoResult == [set |-> FALSE, status |-> "None", iterations |-> 0,
             completion_reason |-> "None", error |-> "None"]
NoCompact == [called |-> FALSE, keep_recent |-> 0, before |-> <<>>,
              after |-> <<>>, generate |-> "none", raised |-> FALSE]
NoCheck == [called |-> FALSE, history |-> <<>>, answer |-> FALSE]
NoPasses == [plan |-> 0, execute |-> 0, verify |-> 0, analyze |-> 0]

\* What TestRunner.run_tests can hand back: the counts, and whether the raw
\* output contains the words "passed" / "failed" (read by the judge fallback).
TestOutcomes ==
    { [set |-> TRUE, passed |-> 0, failed |-> 0, saysPassed |-> FALSE, saysFailed |-> FALSE],
      [set |-> TRUE, passed |-> 2, failed |-> 0, saysPassed |-> TRUE, saysFailed |-> FALSE],
      [set |-> TRUE, passed |-> 1, failed |-> 1, saysPassed |-> TRUE, saysFailed |-> TRUE],
      [set |-> TRUE, passed |-> 2, failed |-> 0, saysPassed |-> TRUE, saysFailed |-> TRUE],
      [set |-> TRUE, passed |-> -1, failed |-> 2, saysPassed |-> FALSE, saysFailed |-> TRUE] }

\* --------------------------------------------------------- Python slicing
Max2(a, b) == IF a >= b THEN a ELSE b

\* s[-k:] for k >= 0.  -0 is 0, so s[-0:] is the whole list.
PyTail(s, k) ==
    IF k = 0 THEN s ELSE SubSeq(s, Max2(Len(s) - k, 0) + 1, Len(s))

\* s[a:-k] for a >= 0, k >= 0.  s[a:-0] is s[a:0], the empty list.
PySliceUpTo(s, a, k) ==
    LET stop == IF k = 0 THEN 0 ELSE Max2(Len(s) - k, 0)
    IN  IF stop <= a THEN <<>> ELSE SubSeq(s, a + 1, stop)

\* ------------------------------------------------------- ContextManager
RECURSIVE get_current_size(_)
get_current_size(h) ==
    IF h = <<>> THEN 0 ELSE get_current_size(Tail(h)) + Head(h).tokens

\* get_current_size() > max_context_size * 0.8.  For integer sizes the float
\* product equals 4*max/5 whenever that is an integer and cannot separate two
\* integers otherwise, so the comparison is the exact one.
should_compact_inclusive(h, maxSize) ==
    10 * get_current_size(h) >= 8 * maxSize

should_compact(h, maxSize) == 10 * get_current_size(h) > 8 * maxSize

IsSystem(m) == m.role = "system"

\* a context manager that puts a new message in front
add_message_in_front(h, m) == <<m>> \o h

\* ContextManager.add_message: conversation_history.append(message)
add_message(h, m) == Append(h, m)
system_messages(h) == SelectSeq(h, IsSystem)
recent_messages(h, keep_recent) == PyTail(h, keep_recent)
messages_to_summarize(h, keep_recent) ==
    PySliceUpTo(h, Len(system_messages(h)), keep_recent)

\* compact_context reaches its llm_provider.generate call
CallsGenerate(h, keep_recent) ==
    /\ ~(Len(h) <= keep_recent)
    /\ messages_to_summarize(h, keep_recent) # <<>>

\* compact_context whose except branch forgets to drop the old messages
compact_context_keeps_middle(h, keep_recent, gen, summary) ==
    IF ~CallsGenerate(h, keep_recent) THEN h
    ELSE IF gen = "ok"
         THEN system_messages(h) \o <<summary>> \o recent_messages(h, keep_recent)
         ELSE h

\* The history compact_context leaves. gen is how the summary request ended
\* ("ok" or "failed"); summary is the summary message built on success.
compact_context(h, keep_recent, gen, summary) ==
    IF ~CallsGenerate(h, keep_recent) THEN h
    ELSE IF gen = "ok"
         THEN system_messages(h) \o <<summary>> \o recent_messages(h, keep_recent)
         ELSE system_messages(h) \o recent_messages(h, keep_recent)

\* Whether an exception of the summary request leaves compact_context: the
\* try/except around llm_provider.generate catches Exception.
compact_propagates(gen) == FALSE

\* The record of one compact_context call
CompactRecord(h, keep_recent, gen, summary) ==
    LET asks == CallsGenerate(h, keep_recent)
        raised == asks /\ gen = "failed" /\ compact_propagates(gen)
    IN  [called |-> TRUE, keep_recent |-> keep_recent, before |-> h,
         after |-> IF raised THEN h
                   ELSE compact_context(h, keep_recent, gen, summary),
         generate |-> IF asks THEN gen ELSE "none",
         raised |-> raised]

\* ------------------------------------------------------- FileOperations
Absent == "absent"           \* no file at the path
NoContent == "None"          \* CodeChange.content = None

\* two files of the same name in different directories
Paths == {<<"a", "x">>, <<"b", "x">>}
\* the seconds datetime.now() may fall in while one batch is applied
Seconds == {0, 1}

\* Path.name
Basename(p) == p[2]

\* f"{file_path.name}.{timestamp}.bak", the timestamp formatted to the second
BackupName(p, t) == <<Basename(p), t>>
BackupNames == {BackupName(p, t) : p \in Paths, t \in Seconds}

NoBackups == [b \in BackupNames |-> Absent]

\* the workspaces a ChangeApplier may be started on: each path with its file
\* or without; the two files differ in content
InitialContent(p) == IF p[1] = "a" THEN "a0" ELSE "b0"
Workspaces ==
    {[p \in Paths |-> IF p \in present THEN InitialContent(p) ELSE Absent] :
        present \in SUBSET Paths}
\* the workspace of an orchestrator's run: one file there, one not
DefaultWorkspace ==
    [p \in Paths |-> IF p[1] = "a" THEN InitialContent(p) ELSE Absent]

\* What a file operation may hit: "none"; "backup": shutil.copy2 raises;
\* "final": the access that follows raises (mkdir/open for a write, unlink
\* for a delete, open for a read).
Faults == {"none", "backup", "final"}

\* _backup_file: shutil.copy2 to the backup name, replacing a file that is
\* already there
_backup_file(bk, files, p, t) == [bk EXCEPT ![BackupName(p, t)] = files[p]]

\* write_file that copies the backup after it has written the file
write_file_backup_last(d, p, content, t, fault) ==
    LET exists == d.fs[p] # Absent
        written == [d.fs EXCEPT ![p] = content]
    IN  IF fault = "final"
        THEN [fs |-> d.fs, backups |-> d.backups, raised |-> TRUE]
        ELSE IF exists /\ fault = "backup"
        THEN [fs |-> written, backups |-> d.backups, raised |-> TRUE]
        ELSE [fs |-> written,
              backups |-> IF exists
                          THEN _backup_file(d.backups, written, p, t)
                          ELSE d.backups,
              raised |-> FALSE]

\* write_file(file_path, content) on the disk d = [fs, backups] in second t:
\* the disk it leaves and whether it raised
write_file(d, p, content, t, fault) ==
    LET exists == d.fs[p] # Absent
        saved == IF exists THEN _backup_file(d.backups, d.fs, p, t)
                 ELSE d.backups
    IN  IF exists /\ fault = "backup"
        THEN [fs |-> d.fs, backups |-> d.backups, raised |-> TRUE]
        ELSE IF fault = "final"
        THEN [fs |-> d.fs, backups |-> saved, raised |-> TRUE]
        ELSE [fs |-> [d.fs EXCEPT ![p] = content], backups |-> saved,
              raised |-> FALSE]

\* delete_file(file_path)
delete_file(d, p, t, fault) ==
    IF d.fs[p] = Absent
    THEN [fs |-> d.fs, backups |-> d.backups, raised |-> FALSE]
    ELSE IF fault = "backup"
    THEN [fs |-> d.fs, backups |-> d.backups, raised |-> TRUE]
    ELSE IF fault = "final"
    THEN [fs |-> d.fs, backups |-> _backup_file(d.backups, d.fs, p, t),
          raised |-> TRUE]
    ELSE [fs |-> [d.fs EXCEPT ![p] = Absent],
          backups |-> _backup_file(d.backups, d.fs, p, t),
          raised |-> FALSE]

NoDiff == [kind |-> "none", old |-> Absent, new |-> NoContent]

\* generate_diff: a unified diff of the file's content against the new
\* content, or the "New file" text when there is no file; reading an
\* existing file may raise
generate_diff(d, p, new_content, fault) ==
    IF d.fs[p] # Absent
    THEN IF fault = "final"
         THEN [diff |-> NoDiff, raised |-> TRUE]
         ELSE [diff |-> [kind |-> "unified", old |-> d.fs[p],
                         new |-> new_content],
               raised |-> FALSE]
    ELSE [diff |-> [kind |-> "new file", old |-> Absent, new |-> new_content],
          raised |-> FALSE]

\* ------------------------------------------- CodeGenerator.apply_changes
CodeChange(p, op, c) == [file_path |-> p, operation |-> op, content |-> c]

\* the change sets explored: writes with content, a write with empty
\* content, a write with no content, deletes, and an operation apply_changes
\* does not know
Changes ==
    {CodeChange(p, "create", "v1") : p \in Paths}
    \cup {CodeChange(p, "update", "v2") : p \in Paths}
    \cup {CodeChange(p, "update", "") : p \in Paths}
    \cup {CodeChange(p, "create", NoContent) : p \in Paths}
    \cup {CodeChange(p, "delete", NoContent) : p \in Paths}
    \cup {CodeChange(<<"a", "x">>, "rename", NoContent)}

\* `not change.content` accepting the empty string
ContentMissingNoneOnly(c) == c = NoContent

\* `not change.content`: None and "" are both falsy
ContentMissing(c) == c \in {NoContent, ""}

ChangeResult(change, ok, err, diff) ==
    [file_path |-> change.file_path, operation |-> change.operation,
     success |-> ok, error |-> err, diff |-> diff]

\* one pass of the loop body with preview = True
PreviewOne(d, change, fault) ==
    IF change.operation \in {"create", "update"}
       /\ ~ContentMissing(change.content)
    THEN LET g == generate_diff(d, change.file_path, change.content, fault)
         IN  [fs |-> d.fs, backups |-> d.backups, raised |-> g.raised,
              results |-> IF g.raised
                          THEN <<ChangeResult(change, FALSE, "OSError", NoDiff)>>
                          ELSE <<ChangeResult(change, TRUE, "None", g.diff)>>]
    ELSE [fs |-> d.fs, backups |-> d.backups, raised |-> FALSE,
          results |-> <<ChangeResult(change, TRUE, "None", NoDiff)>>]

\* one pass of the loop body with preview = False
CommitOne(d, change, t, fault) ==
    IF change.operation \in {"create", "update"}
    THEN IF ContentMissing(change.content)
         THEN [fs |-> d.fs, backups |-> d.backups, raised |-> TRUE,
               results |-> <<ChangeResult(change, FALSE,
                                "Content required for create/update", NoDiff)>>]
         ELSE LET w == write_file(d, change.file_path, change.content, t, fault)
              IN  [fs |-> w.fs, backups |-> w.backups, raised |-> w.raised,
                   results |-> IF w.raised
                               THEN <<ChangeResult(change, FALSE, "OSError", NoDiff)>>
                               ELSE <<ChangeResult(change, TRUE, "None", NoDiff)>>]
    ELSE IF change.operation = "delete"
    THEN LET w == delete_file(d, change.file_path, t, fault)
         IN  [fs |-> w.fs, backups |-> w.backups, raised |-> w.raised,
              results |-> IF w.raised
                          THEN <<ChangeResult(change, FALSE, "OSError", NoDiff)>>
                          ELSE <<ChangeResult(change, TRUE, "None", NoDiff)>>]
    ELSE [fs |-> d.fs, backups |-> d.backups, raised |-> FALSE,
          results |-> <<>>]

\* a loop body that commits whatever the preview flag says
ApplyOneAlwaysCommits(d, change, preview, t, fault) ==
    CommitOne(d, change, t, fault)

\* the loop body of apply_changes, its try/except included: the disk it
\* leaves, the results it appends, and whether the except branch was taken
ApplyOne(d, change, preview, t, fault) ==
    IF preview THEN PreviewOne(d, change, fault)
    ELSE CommitOne(d, change, t, fault)

RECURSIVE ApplySteps(_, _, _, _, _, _)
\* a loop that leaves at the first change that raised
ApplyStepsStopAtFailure(d, changes, preview, times, faults, i) ==
    IF i > Len(changes) THEN <<>>
    ELSE LET one == ApplyOne(d, changes[i], preview, times[i], faults[i])
             step == [before |-> d, after |-> [fs |-> one.fs,
                                               backups |-> one.backups],
                      results |-> one.results, raised |-> one.raised]
         IN  IF one.raised THEN <<step>>
             ELSE <<step>> \o ApplySteps(step.after, changes, preview, times,
                                         faults, i + 1)

\* the for loop of apply_changes from change i on: one step per change, in
\* list order, each starting on the disk the step before it left.  times[i]
\* is the second change i is applied in, faults[i] what its file access hits.
ApplySteps(d, changes, preview, times, faults, i) ==
    IF i > Len(changes) THEN <<>>
    ELSE LET one == ApplyOne(d, changes[i], preview, times[i], faults[i])
             step == [before |-> d, after |-> [fs |-> one.fs,
                                               backups |-> one.backups],
                      results |-> one.results, raised |-> one.raised]
         IN  <<step>> \o ApplySteps(step.after, changes, preview, times,
                                    faults, i + 1)

RECURSIVE ResultsOf(_)
ResultsOf(steps) ==
    IF steps = <<>> THEN <<>> ELSE Head(steps).results \o ResultsOf(Tail(steps))

\* apply_changes(changes, preview) on the disk d: the steps of its loop, the
\* list it returns and the disk it leaves
apply_changes(d, changes, preview, times, faults) ==
    LET steps == ApplySteps(d, changes, preview, times, faults, 1)
    IN  [steps |-> steps,
         results |-> ResultsOf(steps),
         disk |-> IF steps = <<>> THEN d ELSE steps[Len(steps)].after]

NoApply == [called |-> FALSE, preview |-> FALSE, changes |-> <<>>,
            times |-> <<>>, faults |-> <<>>, steps |-> <<>>,
            results |-> <<>>]

ApplyRecord(changes, preview, times, faults, a) ==
    [called |-> TRUE, preview |-> preview, changes |-> changes,
     times |-> times, faults |-> faults, steps |-> a.steps,
     results |-> a.results]

\* ----------------------------------- CodeGenerator.generate_code_changes
\* the changes a provider proposes during a run
ExecChanges == {CodeChange(<<"a", "x">>, "update", "v2")}

\* the change lists of at most n of them
RECURSIVE ProposedLists(_)
ProposedLists(n) ==
    IF n = 0 THEN {<<>>}
    ELSE LET shorter == ProposedLists(n - 1)
         IN  shorter \cup {Append(l, c) : l \in {x \in shorter : Len(x) = n - 1},
                                          c \in ExecChanges}

\* generate_code_changes that returns what it had parsed when it failed
generate_code_changes_keeps_parsed(gen, parsed) == parsed

\* generate_code_changes.  gen is how structured generation and the reading
\* of its answer end ("ok", or "failed": generate_structured raises, or an
\* item of the answer lacks a key); parsed are the changes read up to then.
\* The except branch returns the empty list.
generate_code_changes(gen, parsed) == IF gen = "ok" THEN parsed ELSE <<>>

NoGenerate == [called |-> FALSE, outcome |-> "None", parsed |-> <<>>]

\* the run's changes are applied within one second and without file errors
\* (SpecApply explores both)
SameSecond(n) == [i \in 1..n |-> 0]
NoFaults(n) == [i \in 1..n |-> "none"]

\* ------------------------------------------------------------ TestRunner
\* What the probes of _detect_framework find in the workspace directory.
\*   probe: "ok", or "raises": stat of an entry of the workspace fails with
\*          an error Path.exists() does not swallow (EACCES, ENAMETOOLONG)
\*   pytestMarker: pytest.ini or pyproject.toml is there
\*   jestMarker: jest.config.js or jest.config.ts is there
\*   manifest: package.json is absent ("none"), names jest under
\*          devDependencies ("jest"), does not ("plain"), or cannot be read
\*          as JSON ("broken")
\*   pyFiles: some *.py file is in the tree
Project(probe, pm, jm, manifest, py) ==
    [probe |-> probe, pytestMarker |-> pm, jestMarker |-> jm,
     manifest |-> manifest, pyFiles |-> py]

Projects ==
    {Project("ok", pm, jm, mf, py) :
        pm \in BOOLEAN, jm \in BOOLEAN,
        mf \in {"none", "plain", "jest", "broken"}, py \in BOOLEAN}
    \cup {Project("raises", FALSE, FALSE, "none", FALSE)}

\* a Python project with only its sources
DefaultProject == Project("ok", FALSE, FALSE, "none", TRUE)

\* _detect_framework that trusts the *.py heuristic before the manifest
_detect_framework_sources_first(pr) ==
    IF pr.probe = "raises" THEN [raised |-> TRUE, framework |-> "None"]
    ELSE [raised |-> FALSE,
          framework |->
             IF pr.pytestMarker THEN "pytest"
             ELSE IF pr.jestMarker THEN "jest"
             ELSE IF pr.pyFiles THEN "pytest"
             ELSE IF pr.manifest = "jest" THEN "jest"
             ELSE "unknown"]

\* _detect_framework: the framework it returns, or that it raised.  The
\* exists() and glob() probes stand outside any try; only the reading of
\* package.json is guarded.
_detect_framework(pr) ==
    IF pr.probe = "raises" THEN [raised |-> TRUE, framework |-> "None"]
    ELSE [raised |-> FALSE,
          framework |->
             IF pr.pytestMarker THEN "pytest"
             ELSE IF pr.jestMarker THEN "jest"
             ELSE IF pr.manifest = "jest" THEN "jest"
             ELSE IF pr.pyFiles THEN "pytest"
             ELSE "unknown"]

\* the framework argument of run_tests: None, a framework it can run, or one
\* it cannot
FrameworkArgs == {"None", "pytest", "jest", "unittest", "mocha"}
Supported == {"pytest", "jest", "unittest"}

TestResult(framework, passed, failed, skipped, output, error_messages) ==
    [framework |-> framework, passed |-> passed, failed |-> failed,
     skipped |-> skipped, output |-> output,
     error_messages |-> error_messages]

NoHarnessResult == TestResult("None", 0, 0, 0, "None", 0)

\* What the output of a test process that ended says: the numbers of its
\* summary (tests passed, failed and skipped; errors, which are tests,
\* fixtures or files that could not be run; `ran`, the number of tests the
\* run counts as executed, which leaves out a class or module whose set-up
\* raised) and the number of lines holding FAILED, ERROR or AssertionError
Report(passed, failed, skipped, errors, ran, error_lines) ==
    [passed |-> passed, failed |-> failed, skipped |-> skipped,
     errors |-> errors, ran |-> ran, error_lines |-> error_lines]
NoReport == Report(0, 0, 0, 0, 0, 0)
Reports ==
    {Report(0, 0, 0, 0, 0, 0), Report(2, 0, 0, 0, 2, 0),
     Report(1, 1, 0, 0, 2, 1), Report(1, 0, 1, 0, 2, 0),
     Report(2, 0, 0, 1, 3, 1), Report(1, 0, 0, 1, 1, 1),
     Report(0, 0, 0, 1, 0, 1), Report(0, 12, 0, 0, 12, 12)}

\* How the external process of a call behaves: it cannot be started
\* (create_subprocess_exec raises), it ends within the timeout, or it is
\* still running when the timeout expires.
ProcessRun(how, report) == [how |-> how, report |-> report]
ProcessRuns ==
    {ProcessRun("spawn error", NoReport), ProcessRun("timeout", NoReport)}
    \cup {ProcessRun("exits", r) : r \in Reports}

Counts(passed, failed, skipped) ==
    [passed |-> passed, failed |-> failed, skipped |-> skipped]

\* _parse_pytest_output: the numbers before "passed", "failed" and
\* "skipped"; the "N error(s)" of the summary line is not read
_parse_pytest_output(report) ==
    Counts(report.passed, report.failed, report.skipped)

\* _parse_jest_output: the numbers of the "Tests:" line; the failed suites
\* of the "Test Suites:" line are not read
_parse_jest_output(report) ==
    Counts(report.passed, report.failed, report.skipped)

\* _parse_unittest_output: failed is failures= plus errors=, passed is what
\* is left of "Ran N tests"
_parse_unittest_output(report) ==
    LET failed == report.failed + report.errors
        skipped == report.skipped
    IN  Counts(report.ran - failed - skipped, failed, skipped)

\* _extract_error_messages: the number of lines it returns
_extract_error_messages(error_lines) == Min2(error_lines, MaxErrorLines)

\* _run_pytest / _run_jest / _run_unittest: the TestResult returned and the
\* state the process is in when the method returns.  The TimeoutError branch
\* returns without process.kill() or process.wait().
_run_framework(framework, run) ==
    IF run.how = "spawn error"
    THEN [result |-> TestResult(framework, 0, 0, 0, "Error running tests", 1),
          process |-> "none"]
    ELSE IF run.how = "timeout"
    THEN [result |-> TestResult(framework, 0, 0, 0, "Tests timed out", 1),
          process |-> "running"]
    ELSE LET c == CASE framework = "pytest" ->
                          _parse_pytest_output(run.report)
                    [] framework = "jest" -> _parse_jest_output(run.report)
                    [] OTHER -> _parse_unittest_output(run.report)
         IN  [result |-> TestResult(framework, c.passed, c.failed, c.skipped,
                                    "report",
                                    _extract_error_messages(
                                        run.report.error_lines)),
              process |-> "exited"]

\* run_tests(framework=arg)
run_tests(arg, pr, run) ==
    LET detected == IF arg = "None" THEN _detect_framework(pr)
                    ELSE [raised |-> FALSE, framework |-> arg]
    IN  IF detected.raised
        THEN [raised |-> TRUE, asked |-> "None", result |-> NoHarnessResult,
              process |-> "none"]
        ELSE IF detected.framework \in Supported
        THEN LET r == _run_framework(detected.framework, run)
             IN  [raised |-> FALSE, asked |-> detected.framework,
                  result |-> r.result, process |-> r.process]
        ELSE [raised |-> FALSE, asked |-> detected.framework,
              result |-> TestResult("unknown", 0, 0, 0,
                                    "Unsupported test framework", 0),
              process |-> "none"]

\* ---------------------------------------------------------- ScriptRunner
ScriptResult(success, error, returncode) ==
    [success |-> success, error |-> error, returncode |-> returncode]

NoScriptResult == ScriptResult(FALSE, "None", 0)

\* the return codes of a process that ended
ReturnCodes == {0, 1}

\* run_command, and run_script from its try on: a timeout kills the process
\* and waits for it before returning
run_command(run, returncode) ==
    IF run.how = "spawn error"
    THEN [result |-> ScriptResult(FALSE, "OSError", -1), process |-> "none"]
    ELSE IF run.how = "timeout"
    THEN [result |-> ScriptResult(FALSE, "timed out", -1),
          process |-> "killed and reaped"]
    ELSE [result |-> ScriptResult(returncode = 0, "None", returncode),
          process |-> "exited"]

\* run_script(script_path)
run_script(script_exists, run, returncode) ==
    IF ~script_exists
    THEN [result |-> ScriptResult(FALSE, "Script not found", -1),
          process |-> "none"]
    ELSE run_command(run, returncode)

NoRun == [called |-> FALSE, who |-> "None", arg |-> "None",
          run |-> ProcessRun("None", NoReport), raised |-> FALSE,
          asked |-> "None", test_result |-> NoHarnessResult,
          script_result |-> NoScriptResult]

\* ------------------------------------------------------------ workflow
END == "done"

_should_continue(sc) == IF sc THEN "continue" ELSE "end"

\* a workflow wired without the execute -> verify edge
WorkflowEdgeSkipVerify(node, sc) ==
    CASE node = "plan" -> "execute"
      [] node = "execute" -> "analyze"
      [] node = "verify" -> "analyze"
      [] node = "analyze" ->
            IF _should_continue(sc) = "continue" THEN "plan" ELSE END

\* The edges of _build_workflow: the node that follows `node`
WorkflowEdge(node, sc) ==
    CASE node = "plan" -> "execute"
      [] node = "execute" -> "verify"
      [] node = "verify" -> "analyze"
      [] node = "analyze" ->
            IF _should_continue(sc) = "continue" THEN "plan" ELSE END

tests_passed_no_count(tr) == tr.failed = 0

tests_passed_of(tr) == tr.failed = 0 /\ tr.passed > 0

quality_good_strict(q) == q > QualityThreshold

quality_good(q) == q >= QualityThreshold

budget_exhausted(it, maxIt) == it >= maxIt

\* LLMJudge.judge_completion's fallback when generate_structured fails
JudgeFallback(tr) ==
    IF tr.saysPassed /\ ~tr.saysFailed THEN FallbackGood ELSE FallbackBad

Bump(p, node) == [p EXCEPT ![node] = @ + 1]

\* A verification record that meets the stop policy (ghost, for the claims)
VerificationPasses(vr) == vr.tests_passed /\ vr.quality_score >= 70

\* run()'s except branch: "error" is str(e), "iterations" is
\* initial_state.iteration, the object built with iteration=0 before the
\* workflow was invoked
FailedResult(err) ==
    [set |-> TRUE, status |-> "failed", iterations |-> 0,
     completion_reason |-> "None", error |-> err]

\* ------------------------------------------------------------ LLM provider
\* A provider's generate(): one request to the backend, any error of which
\* comes back as a RuntimeError.  outage is the number of calls, from this
\* one on, that the backend fails before it answers.
generate(outage) == [raised |-> outage >= 1]

\* the backoff of generate_with_retry without its growth
wait_time_constant(attempt) == 1

\* wait_time = 2**attempt
wait_time(attempt) == 2 ^ attempt

\* BaseLLMProvider.generate_with_retry from its attempt-th pass through the
\* loop on, having slept `slept` seconds so far
RECURSIVE RetryFrom(_, _, _, _)
RetryFrom(attempt, outage, max_retries, slept) ==
    IF attempt >= max_retries
    THEN [attempts |-> attempt, raised |-> TRUE, slept |-> slept]
    ELSE IF ~generate(outage - attempt).raised
    THEN [attempts |-> attempt + 1, raised |-> FALSE, slept |-> slept]
    ELSE IF attempt = max_retries - 1
    THEN [attempts |-> attempt + 1, raised |-> TRUE, slept |-> slept]
    ELSE RetryFrom(attempt + 1, outage, max_retries,
                   slept + wait_time(attempt))

generate_with_retry(outage, max_retries) ==
    RetryFrom(0, outage, max_retries, 0)

\* The plan request of _planning_node: llm_provider.generate, called once
PlanRequest(outage) ==
    [called |-> TRUE, outage |-> outage, attempts |-> 1,
     raised |-> generate(outage).raised]

NoRequest == [called |-> FALSE, outage |-> 0, attempts |-> 0, raised |-> FALSE]

NoFeedback == [called |-> FALSE, given |-> [errors |-> 0, issues |-> 0,
                                            suggestions |-> 0],
               excerpts |-> 0, issues |-> 0, suggestions |-> 0]

\* A generate_with_retry(messages, max_retries) call under way: fails[i]
\* tells whether the i-th call of generate raises, attempt is the number of
\* passes through the loop made, log the calls (0) and the sleeps (their
\* seconds) in order, error the attempt whose error left the call (-1: the
\* RuntimeError after the loop).
RetryCall(max_retries, fails) ==
    [max_retries |-> max_retries, fails |-> fails, attempt |-> 0,
     status |-> "running", log |-> <<>>, error |-> 0]

NoRetry == [RetryCall(0, [i \in 1..MaxRetries |-> FALSE]) EXCEPT
               !.status = "idle"]

NoSession == [tasks |-> 0, first_id |-> 1]

\* -------------------------------------------------------- provider factory
\* create_llm_provider(config, provider_type): "None" stands for a
\* provider_type left out; None and "" both fall back to the configured
\* default.  An unknown name raises ValueError.
create_llm_provider_falls_back(default_llm_provider, provider_type) ==
    LET provider == IF provider_type \in {"None", ""}
                    THEN default_llm_provider ELSE provider_type
    IN  IF provider = "ollama"
        THEN [raised |-> FALSE, error |-> "None", provider |-> "OllamaProvider"]
        ELSE [raised |-> FALSE, error |-> "None", provider |-> "OpenAIProvider"]

create_llm_provider(default_llm_provider, provider_type) ==
    LET provider == IF provider_type \in {"None", ""}
                    THEN default_llm_provider ELSE provider_type
    IN  IF provider = "openai"
        THEN [raised |-> FALSE, error |-> "None", provider |-> "OpenAIProvider"]
        ELSE IF provider = "ollama"
        THEN [raised |-> FALSE, error |-> "None", provider |-> "OllamaProvider"]
        ELSE [raised |-> TRUE, error |-> "ValueError", provider |-> "None"]

\* ------------------------------------------------------------ command line
\* The session of cli/main.py: the command ("run" or "interactive";
\* "library" is a caller that builds the orchestrator itself), the
\* --provider option ("None": not given), the configured
\* default_llm_provider, and how far the command got.
Cli(mode, option, default_llm_provider) ==
    [mode |-> mode, option |-> option,
     default_llm_provider |-> default_llm_provider,
     configured |-> "None", stage |-> "start", orchestrator |-> FALSE,
     error |-> "None", exit_code |-> "None", interrupted |-> FALSE,
     announced |-> "None"]

\* what the command prints about the dictionary run() returned: the green
\* "Task completed successfully!" / "Done" when its status is completed,
\* the yellow status line otherwise
announce(res) == IF res.status = "completed" THEN "success" ELSE "ended"

ProviderOptions == {"None", "", "ollama", "invalid"}
ProviderDefaults == {"openai", "OpenAI"}

\* `interactive` has no --provider option
Clis ==
    {Cli("run", o, d) : o \in ProviderOptions, d \in ProviderDefaults}
    \cup {Cli("interactive", "None", d) : d \in ProviderDefaults}

DefaultCli ==
    [Cli("library", "None", "openai") EXCEPT
        !.configured = "openai", !.stage = "ready", !.orchestrator = TRUE]

\* config.default_llm_provider once `run` has read its --provider option
configured_provider(c) ==
    IF c.mode = "run" /\ c.option \notin {"None", ""}
    THEN c.option ELSE c.default_llm_provider

\* the except KeyboardInterrupt branch that rolls the workspace back
on_keyboard_interrupt_rollback(mode, disk) ==
    [stage |-> IF mode = "run" THEN "exited" ELSE "prompt",
     exit_code |-> IF mode = "run" THEN "0" ELSE "None",
     disk |-> [fs |-> DefaultWorkspace, backups |-> NoBackups]]

\* The except KeyboardInterrupt branch of `run` and of `interactive`: a
\* message is printed; `run` then returns, the loop of `interactive` goes
\* on to its next prompt.  Neither touches the workspace.
on_keyboard_interrupt(mode, disk) ==
    [stage |-> IF mode = "run" THEN "exited" ELSE "prompt",
     exit_code |-> IF mode = "run" THEN "0" ELSE "None",
     disk |-> disk]

\* ------------------------------------------------------ SubAgentDispatcher
TaskIds == {"t1", "t2"}

\* active_subagents maps a task id to the dispatch whose SubAgent is stored
\* under it, 0 standing for no entry
NoSubAgents == [id \in TaskIds |-> 0]

NoDispatch == [status |-> "idle", task |-> "None", result |-> "None"]
NoDispatches == [d \in 1..MaxDispatches |-> NoDispatch]

get_active_count(active) == Cardinality({id \in TaskIds : active[id] # 0})

\* SubAgent.execute from its i-th iteration on: the request of iteration
\* fail_at raises, the response of iteration done_at says the task is done
RECURSIVE ExecuteFrom(_, _, _, _)
ExecuteFrom(i, done_at, fail_at, max) ==
    IF i >= max THEN "max_iterations_reached"
    ELSE IF fail_at = i THEN "failed"
    ELSE IF done_at = i THEN "completed"
    ELSE ExecuteFrom(i + 1, done_at, fail_at, max)

execute(done_at, fail_at, max) == ExecuteFrom(0, done_at, fail_at, max)

\* ----------------------------------------------------------------- Init
Init ==
    /\ max_iterations \in 0..MaxN
    /\ max_context_size \in ContextSizes
    /\ conversation_history = <<>>
    /\ nextId = 1
    /\ pc = "idle"
    /\ task_status = "pending"
    /\ phase = "planning"
    /\ iteration = 0
    /\ should_continue = TRUE
    /\ completion_reason = "None"
    /\ planning_state = NoPlanningState
    /\ execution_state = NoExecutionState
    /\ verification_result = NoVerificationResult
    /\ result = NoResult
    /\ passes = NoPasses
    /\ everSuccess = FALSE
    /\ lastCompact = NoCompact
    /\ lastCheck = NoCheck
    /\ fs = DefaultWorkspace
    /\ backups = NoBackups
    /\ lastApply = NoApply
    /\ lastGenerate = NoGenerate
    /\ project = DefaultProject
    /\ process = "none"
    /\ lastRun = NoRun
    /\ lastRequest = NoRequest
    /\ cli = DefaultCli
    /\ active_subagents = NoSubAgents
    /\ dispatches = NoDispatches
    /\ lastFeedback = NoFeedback
    /\ retry = NoRetry
    /\ session = NoSession

\* ------------------------------------------------------ AgentOrchestrator
\* run(task) up to the workflow's entry point: a fresh AgentState and the
\* system prompt added to the context manager's history.
Run ==
    /\ pc = "idle"
    /\ task_status' = "pending"
    /\ phase' = "planning"
    /\ iteration' = 0
    /\ should_continue' = TRUE
    /\ completion_reason' = "None"
    /\ planning_state' = NoPlanningState
    /\ execution_state' = NoExecutionState
    /\ verification_result' = NoVerificationResult
    /\ result' = NoResult
    /\ passes' = NoPasses
    /\ everSuccess' = FALSE
    /\ conversation_history' =
          add_message(conversation_history,
                      Message("system", SystemPromptTokens, nextId))
    /\ nextId' = nextId + 1
    /\ pc' = "plan"
    /\ lastCompact' = NoCompact
    /\ lastCheck' = NoCheck
    /\ lastRequest' = NoRequest
    /\ lastFeedback' = NoFeedback
    /\ UNCHANGED <<max_iterations, max_context_size>>
    /\ UNCHANGED diskVars
    /\ UNCHANGED harnessVars
    /\ UNCHANGED sessionVars

\* _planning_node.  gen is how the summary request of compact_context ends,
\* outage how many calls of generate the backend fails from the plan request
\* on, plan what the plan request returns ("raise": llm_provider.generate
\* raises; "": an empty response, of no tokens).
PlanningNode(gen, plan, outage) ==
    /\ pc = "plan"
    /\ LET h0 == conversation_history
           check == should_compact(h0, max_context_size)
           asks == check /\ CallsGenerate(h0, DefaultKeepRecent)
           summary == Message("system", SummaryTokens, nextId)
           pt == IF plan = "" THEN 0 ELSE PlanTokens
           rec == CompactRecord(h0, DefaultKeepRecent, gen, summary)
           h1 == IF check THEN rec.after ELSE h0
           id1 == IF asks /\ gen = "ok" THEN nextId + 1 ELSE nextId
           h2 == add_message(h1, Message("user", PlanPromptTokens, id1))
       IN  /\ asks \/ gen = "ok"
           /\ lastCheck' = [called |-> TRUE, history |-> h0, answer |-> check]
           /\ lastCompact' = IF check THEN rec ELSE NoCompact
           /\ task_status' = "planning"
           /\ phase' = "planning"
           /\ passes' = Bump(passes, "plan")
           /\ IF check /\ rec.raised
              THEN /\ plan = "raise"
                   /\ outage = 0
                   /\ lastRequest' = NoRequest
                   /\ conversation_history' = h1
                   /\ nextId' = nextId
                   /\ pc' = "failed"
                   /\ result' = FailedResult("summary request")
                   /\ UNCHANGED planning_state
              ELSE IF PlanRequest(outage).raised
              THEN /\ plan = "raise"
                   /\ lastRequest' = PlanRequest(outage)
                   /\ conversation_history' = h2
                   /\ nextId' = id1 + 1
                   /\ pc' = "failed"
                   /\ result' = FailedResult("plan request")
                   /\ UNCHANGED planning_state
              ELSE /\ plan # "raise"
                   /\ lastRequest' = PlanRequest(outage)
                   /\ conversation_history' =
                         add_message(h2, Message("assistant", pt, id1 + 1))
                   /\ nextId' = id1 + 2
                   /\ planning_state' = [set |-> TRUE, plan |-> plan]
                   /\ pc' = WorkflowEdge("plan", should_continue)
                   /\ UNCHANGED result
    /\ lastFeedback' = NoFeedback
    /\ UNCHANGED <<max_iterations, max_context_size, iteration,
                   should_continue, completion_reason, execution_state,
                   verification_result, everSuccess>>
    /\ UNCHANGED diskVars
    /\ UNCHANGED harnessVars
    /\ UNCHANGED sessionVars

\* a guard that lets an empty plan through
no_plan_unset_only(ps) == ~ps.set

\* `not state.planning_state or not state.planning_state.plan`
no_plan(ps) == ~ps.set \/ ps.plan = ""

\* _execution_node: generate the change set, preview it, commit it.
ExecutionNode(gen, parsed) ==
    /\ pc = "execute"
    /\ task_status' = "executing"
    /\ phase' = "executing"
    /\ passes' = Bump(passes, "execute")
    /\ IF no_plan(planning_state)
       THEN /\ gen = "ok"
            /\ parsed = <<>>
            /\ lastGenerate' = NoGenerate
            /\ lastApply' = NoApply
            /\ UNCHANGED <<execution_state, fs, backups>>
       ELSE LET code_changes == generate_code_changes(gen, parsed)
                n == Len(code_changes)
                shown == apply_changes([fs |-> fs, backups |-> backups],
                                       code_changes, TRUE, SameSecond(n),
                                       NoFaults(n))
                done == apply_changes(shown.disk, code_changes, FALSE,
                                      SameSecond(n), NoFaults(n))
            IN  /\ lastGenerate' = [called |-> TRUE, outcome |-> gen,
                                    parsed |-> parsed]
                /\ execution_state' = [set |-> TRUE, code_changes |-> n]
                /\ fs' = done.disk.fs
                /\ backups' = done.disk.backups
                /\ lastApply' = ApplyRecord(code_changes, FALSE, SameSecond(n),
                                            NoFaults(n), done)
    /\ pc' = WorkflowEdge("execute", should_continue)
    /\ UNCHANGED <<max_iterations, max_context_size, conversation_history,
                   nextId, iteration, should_continue, completion_reason,
                   planning_state, verification_result, result, everSuccess,
                   lastCompact, lastCheck, lastRequest, lastFeedback>>
    /\ UNCHANGED harnessVars
    /\ UNCHANGED sessionVars

\* What the judge step of _verification_node stores as quality_score.
\* j is the judge's answer: a response with a quality_score ("score"), a
\* response without the key ("missing"), or generate_structured failed and
\* judge_completion returned its fallback ("fallback").  The kind is kept
\* in the record as llm_judgment.
JudgeAnswers ==
    {[kind |-> "score", score |-> q] : q \in JudgeScores}
    \cup {[kind |-> "missing", score |-> 0], [kind |-> "fallback", score |-> 0]}

NoJudgeAnswer == [kind |-> "missing", score |-> 0]

StoredQuality(j, tr) ==
    IF j.kind = "missing" THEN 0
    ELSE IF j.kind = "fallback" THEN JudgeFallback(tr)
    ELSE j.score

\* The issues _verification_node collects: its own when run_tests raised,
\* and those of the judgment (the fallback's one; a judge's own findings are
\* not told apart here and count as none).
StoredIssues(j, tr, judged) ==
    (IF tr.set THEN {} ELSE {"Test execution error"})
    \cup (IF judged /\ j.kind = "fallback"
          THEN {"LLM judgment unavailable"} ELSE {})

\* a judge step that does not look at the change set
has_code_changes_always(es) == TRUE

\* `state.execution_state and state.execution_state.code_changes`: the
\* judge is asked only about a non-empty change set
has_code_changes(es) == es.set /\ es.code_changes > 0

\* _verification_node.  tr is what run_tests returns (NoTestResult: it raised).
VerificationNode(tr, j) ==
    /\ pc = "verify"
    /\ task_status' = "verifying"
    /\ phase' = "verifying"
    /\ passes' = Bump(passes, "verify")
    /\ LET judged == has_code_changes(execution_state)
           vr == [set |-> TRUE,
                  tests_passed |-> IF tr.set THEN tests_passed_of(tr) ELSE FALSE,
                  test_results |-> tr,
                  judged |-> judged,
                  quality_score |-> IF judged THEN StoredQuality(j, tr) ELSE 0,
                  llm_judgment |-> IF judged THEN j.kind ELSE "None",
                  issues |-> StoredIssues(j, tr, judged)]
       IN  /\ judged \/ j = NoJudgeAnswer
           /\ verification_result' = vr
           /\ everSuccess' = (everSuccess \/ VerificationPasses(vr))
    /\ pc' = WorkflowEdge("verify", should_continue)
    /\ UNCHANGED <<max_iterations, max_context_size, conversation_history,
                   nextId, iteration, should_continue, completion_reason,
                   planning_state, execution_state, result, lastCompact,
                   lastCheck, lastRequest, lastFeedback>>
    /\ UNCHANGED diskVars
    /\ UNCHANGED harnessVars
    /\ UNCHANGED sessionVars

next_iteration_forgotten(it) == it

next_iteration(it) == it + 1

\* the budget branch stops without naming its reason
completion_reason_success_only(d, old) == IF d = "success" THEN d ELSE old

\* completion_reason after the decision d: set on both stop branches, left
\* alone on the continue path
completion_reason_after(d, old) == IF d = "continue" THEN old ELSE d

\* The lengths of the lists a verification record carries beyond what the
\* record of this model holds: test_results.error_messages, the issues the
\* judge found itself, and its suggestions
Found(errors, issues, suggestions) ==
    [errors |-> errors, issues |-> issues, suggestions |-> suggestions]
NothingFound == Found(0, 0, 0)
\* none or more error lines than a feedback message lists, and a judge that
\* found nothing or more issues and suggestions than it lists
Findings ==
    {Found(e, 0, 0) : e \in {0, 4}} \cup {Found(e, 6, 4) : e \in {0, 4}}

\* what a record can carry: no error lines without a test result, no
\* findings of a judge that was not asked
FoundBy(vr, found) ==
    /\ vr.test_results.set \/ found.errors = 0
    /\ vr.judged \/ (found.issues = 0 /\ found.suggestions = 0)

\* a feedback message that lists everything
_create_feedback_message_unbounded(vr, found) ==
    [called |-> TRUE, given |-> found,
     excerpts |-> IF ~vr.tests_passed /\ vr.test_results.set
                  THEN found.errors ELSE 0,
     issues |-> Cardinality(vr.issues) + found.issues,
     suggestions |-> found.suggestions]

\* _create_feedback_message: how many error lines, issues and suggestions
\* the message lists
_create_feedback_message(vr, found) ==
    [called |-> TRUE, given |-> found,
     excerpts |-> IF ~vr.tests_passed /\ vr.test_results.set
                  THEN Min2(found.errors, MaxFeedbackErrors) ELSE 0,
     issues |-> Min2(Cardinality(vr.issues) + found.issues,
                     MaxFeedbackIssues),
     suggestions |-> Min2(found.suggestions, MaxFeedbackSuggestions)]

\* an analysis that looks at the verification before the budget
AnalysisDecisionSuccessFirst(it, maxIt, vr) ==
    IF vr.set /\ vr.tests_passed /\ quality_good(vr.quality_score)
    THEN "success"
    ELSE IF budget_exhausted(it, maxIt) THEN "max_iterations"
         ELSE "continue"

\* The decision of _analysis_node after the increment: "max_iterations",
\* "success" or "continue".
AnalysisDecision(it, maxIt, vr) ==
    IF budget_exhausted(it, maxIt) THEN "max_iterations"
    ELSE IF vr.set /\ vr.tests_passed /\ quality_good(vr.quality_score)
         THEN "success"
         ELSE "continue"

\* _analysis_node, and run()'s return when the workflow ends.  found is
\* what the verification record carries for the feedback message.
AnalysisNode(found) ==
    /\ pc = "analyze"
    /\ FoundBy(verification_result, found)
    /\ passes' = Bump(passes, "analyze")
    /\ iteration' = next_iteration(iteration)
    /\ LET d == AnalysisDecision(iteration', max_iterations, verification_result)
           sc == (d = "continue")
       IN  /\ should_continue' = sc
           /\ completion_reason' = completion_reason_after(d, completion_reason)
           /\ task_status' = IF sc THEN task_status ELSE "completed"
           /\ IF sc /\ verification_result.set
              THEN /\ lastFeedback' =
                        _create_feedback_message(verification_result, found)
                   /\ conversation_history' =
                        add_message(conversation_history,
                                    Message("user", FeedbackTokens, nextId))
                   /\ nextId' = nextId + 1
              ELSE /\ found = NothingFound
                   /\ lastFeedback' = NoFeedback
                   /\ UNCHANGED <<conversation_history, nextId>>
           /\ pc' = WorkflowEdge("analyze", sc)
           /\ result' = IF WorkflowEdge("analyze", sc) = END
                        THEN [set |-> TRUE, status |-> task_status',
                              iterations |-> iteration',
                              completion_reason |-> completion_reason',
                              error |-> "None"]
                        ELSE result
    /\ UNCHANGED <<max_iterations, max_context_size, phase,
                   planning_state, execution_state, verification_result,
                   everSuccess, lastCompact, lastCheck, lastRequest>>
    /\ UNCHANGED diskVars
    /\ UNCHANGED harnessVars
    /\ UNCHANGED sessionVars

Next ==
    \/ Run
    \/ \E gen \in {"ok", "failed"}, plan \in {"raise", "", "plan"},
          outage \in 0..MaxOutage :
          PlanningNode(gen, plan, outage)
    \/ \E gen \in {"ok", "failed"}, parsed \in ProposedLists(MaxChanges) :
          ExecutionNode(gen, parsed)
    \/ \E tr \in TestOutcomes \cup {NoTestResult},
          j \in JudgeAnswers :
          VerificationNode(tr, j)
    \/ \E found \in Findings : AnalysisNode(found)

Spec == Init /\ [][Next]_vars

\* ------------------------------------------ ContextManager used directly
\* A client that owns a ContextManager and calls its methods in any order.
CtxAddMessage(role, tokens) ==
    /\ nextId <= MaxMsgs
    /\ conversation_history' =
          add_message(conversation_history, Message(role, tokens, nextId))
    /\ nextId' = nextId + 1
    /\ lastCompact' = NoCompact
    /\ lastCheck' = NoCheck
    /\ UNCHANGED <<max_iterations, max_context_size>>
    /\ UNCHANGED orchVars
    /\ UNCHANGED diskVars
    /\ UNCHANGED harnessVars
    /\ UNCHANGED sessionVars

CtxShouldCompact ==
    /\ lastCheck' = [called |-> TRUE, history |-> conversation_history,
                     answer |-> should_compact(conversation_history,
                                               max_context_size)]
    /\ lastCompact' = NoCompact
    /\ UNCHANGED <<max_iterations, max_context_size, conversation_history,
                   nextId>>
    /\ UNCHANGED orchVars
    /\ UNCHANGED diskVars
    /\ UNCHANGED harnessVars
    /\ UNCHANGED sessionVars

CtxCompact(keep_recent, gen) ==
    /\ LET h == conversation_history
           rec == CompactRecord(h, keep_recent, gen,
                                Message("system", SummaryTokens, nextId))
       IN  /\ CallsGenerate(h, keep_recent) \/ gen = "ok"
           /\ lastCompact' = rec
           /\ conversation_history' = rec.after
           /\ nextId' = IF rec.generate = "ok" THEN nextId + 1 ELSE nextId
    /\ lastCheck' = NoCheck
    /\ UNCHANGED <<max_iterations, max_context_size>>
    /\ UNCHANGED orchVars
    /\ UNCHANGED diskVars
    /\ UNCHANGED harnessVars
    /\ UNCHANGED sessionVars

NextCtx ==
    \/ \E role \in Roles, tokens \in MsgTokens : CtxAddMessage(role, tokens)
    \/ CtxShouldCompact
    \/ \E keep_recent \in 0..MaxKeep, gen \in {"ok", "failed"} :
          CtxCompact(keep_recent, gen)

\* max_iterations plays no part here: the default of AgentConfig is not
\* explored, one value stands for it
InitCtx == Init /\ max_iterations = MaxN

SpecCtx == InitCtx /\ [][NextCtx]_vars

\* ------------------------------------------- CodeGenerator used directly
\* the change lists of at most MaxBatch changes
RECURSIVE ChangeLists(_)
ChangeLists(n) ==
    IF n = 0 THEN {<<>>}
    ELSE LET shorter == ChangeLists(n - 1)
         IN  shorter \cup {Append(l, c) : l \in {x \in shorter : Len(x) = n - 1},
                                          c \in Changes}

\* the seconds the changes of a list of length n are applied in: the clock
\* does not go back, and moves on at most once during a batch
TimesOf(n) ==
    {[i \in 1..n |-> IF tick # 0 /\ i > tick THEN 1 ELSE 0] : tick \in 0..n}

\* at most one file access of a batch goes wrong
FaultsOf(n) ==
    {[i \in 1..n |-> IF i = at THEN f ELSE "none"] :
        at \in 0..n, f \in Faults \ {"none"}}

\* A client calls apply_changes(changes, preview) once on its workspace.
ApplyChanges(changes, preview, times, faults) ==
    /\ ~lastApply.called
    /\ LET a == apply_changes([fs |-> fs, backups |-> backups], changes,
                              preview, times, faults)
       IN  /\ fs' = a.disk.fs
           /\ backups' = a.disk.backups
           /\ lastApply' = ApplyRecord(changes, preview, times, faults, a)
    /\ UNCHANGED lastGenerate
    /\ UNCHANGED <<max_iterations, max_context_size, conversation_history,
                   nextId, lastCompact, lastCheck>>
    /\ UNCHANGED orchVars
    /\ UNCHANGED harnessVars
    /\ UNCHANGED sessionVars

NextApply ==
    /\ ~lastApply.called
    /\ \E changes \in ChangeLists(MaxBatch), preview \in BOOLEAN :
          \E times \in TimesOf(Len(changes)),
             faults \in FaultsOf(Len(changes)) :
             ApplyChanges(changes, preview, times, faults)

\* the orchestrator's configuration plays no part here
InitApply ==
    /\ max_iterations = MaxN
    /\ max_context_size = 10
    /\ conversation_history = <<>>
    /\ nextId = 1
    /\ pc = "idle"
    /\ task_status = "pending"
    /\ phase = "planning"
    /\ iteration = 0
    /\ should_continue = TRUE
    /\ completion_reason = "None"
    /\ planning_state = NoPlanningState
    /\ execution_state = NoExecutionState
    /\ verification_result = NoVerificationResult
    /\ result = NoResult
    /\ passes = NoPasses
    /\ everSuccess = FALSE
    /\ lastCompact = NoCompact
    /\ lastCheck = NoCheck
    /\ fs \in Workspaces
    /\ backups = NoBackups
    /\ lastApply = NoApply
    /\ lastGenerate = NoGenerate
    /\ project = DefaultProject
    /\ process = "none"
    /\ lastRun = NoRun
    /\ lastRequest = NoRequest
    /\ cli = DefaultCli
    /\ active_subagents = NoSubAgents
    /\ dispatches = NoDispatches
    /\ lastFeedback = NoFeedback
    /\ retry = NoRetry
    /\ session = NoSession

SpecApply == InitApply /\ [][NextApply]_vars

\* ------------------------------- TestRunner and ScriptRunner used directly
\* A client makes one call on a workspace.
RunTests(arg, run) ==
    /\ ~lastRun.called
    /\ LET r == run_tests(arg, project, run)
       IN  /\ process' = r.process
           /\ lastRun' = [called |-> TRUE, who |-> "run_tests", arg |-> arg,
                          run |-> run, raised |-> r.raised, asked |-> r.asked,
                          test_result |-> r.result,
                          script_result |-> NoScriptResult]
    /\ UNCHANGED <<max_iterations, max_context_size, conversation_history,
                   nextId, lastCompact, lastCheck, project>>
    /\ UNCHANGED orchVars
    /\ UNCHANGED diskVars
    /\ UNCHANGED sessionVars

RunScript(script_exists, run, returncode) ==
    /\ ~lastRun.called
    /\ LET r == run_script(script_exists, run, returncode)
       IN  /\ process' = r.process
           /\ lastRun' = [called |-> TRUE, who |-> "run_script",
                          arg |-> IF script_exists THEN "script" ELSE "None",
                          run |-> run, raised |-> FALSE, asked |-> "None",
                          test_result |-> NoHarnessResult,
                          script_result |-> r.result]
    /\ UNCHANGED <<max_iterations, max_context_size, conversation_history,
                   nextId, lastCompact, lastCheck, project>>
    /\ UNCHANGED orchVars
    /\ UNCHANGED diskVars
    /\ UNCHANGED sessionVars

RunCommand(run, returncode) ==
    /\ ~lastRun.called
    /\ LET r == run_command(run, returncode)
       IN  /\ process' = r.process
           /\ lastRun' = [called |-> TRUE, who |-> "run_command",
                          arg |-> "command", run |-> run, raised |-> FALSE,
                          asked |-> "None", test_result |-> NoHarnessResult,
                          script_result |-> r.result]
    /\ UNCHANGED <<max_iterations, max_context_size, conversation_history,
                   nextId, lastCompact, lastCheck, project>>
    /\ UNCHANGED orchVars
    /\ UNCHANGED diskVars
    /\ UNCHANGED sessionVars

NextHarness ==
    \/ \E arg \in FrameworkArgs, run \in ProcessRuns : RunTests(arg, run)
    \/ \E script_exists \in BOOLEAN, run \in ProcessRuns,
          returncode \in ReturnCodes :
          RunScript(script_exists, run, returncode)
    \/ \E run \in ProcessRuns, returncode \in ReturnCodes :
          RunCommand(run, returncode)

InitHarness ==
    /\ max_iterations = MaxN
    /\ max_context_size = 10
    /\ conversation_history = <<>>
    /\ nextId = 1
    /\ pc = "idle"
    /\ task_status = "pending"
    /\ phase = "planning"
    /\ iteration = 0
    /\ should_continue = TRUE
    /\ completion_reason = "None"
    /\ planning_state = NoPlanningState
    /\ execution_state = NoExecutionState
    /\ verification_result = NoVerificationResult
    /\ result = NoResult
    /\ passes = NoPasses
    /\ everSuccess = FALSE
    /\ lastCompact = NoCompact
    /\ lastCheck = NoCheck
    /\ fs = DefaultWorkspace
    /\ backups = NoBackups
    /\ lastApply = NoApply
    /\ lastGenerate = NoGenerate
    /\ project \in Projects
    /\ process = "none"
    /\ lastRun = NoRun
    /\ lastRequest = NoRequest
    /\ cli = DefaultCli
    /\ active_subagents = NoSubAgents
    /\ dispatches = NoDispatches
    /\ lastFeedback = NoFeedback
    /\ retry = NoRetry
    /\ session = NoSession

SpecHarness == InitHarness /\ [][NextHarness]_vars

\* ------------------------------------------------- the orchestrator's CLI
\* `run` up to the orchestrator's construction, or `interactive` up to its
\* first prompt: the configuration is read and AgentOrchestrator.__init__
\* creates the provider before anything else.
CliStart ==
    /\ cli.stage = "start"
    /\ LET configured == configured_provider(cli)
           made == create_llm_provider(configured, "None")
       IN  cli' = IF made.raised
                  THEN [cli EXCEPT !.configured = configured,
                                   !.stage = "error",
                                   !.error = made.error,
                                   !.exit_code = "1"]
                  ELSE [cli EXCEPT !.configured = configured,
                                   !.stage = "ready",
                                   !.orchestrator = TRUE]
    /\ UNCHANGED <<max_iterations, max_context_size, conversation_history,
                   nextId, lastCompact, lastCheck>>
    /\ UNCHANGED orchVars
    /\ UNCHANGED diskVars
    /\ UNCHANGED harnessVars
    /\ UNCHANGED <<active_subagents, dispatches, retry, session>>

\* Ctrl-C while asyncio.run(orchestrator.run(task)) is under way: the run
\* is cancelled where it awaits, run()'s `except Exception` does not catch
\* the cancellation, and the KeyboardInterrupt reaches the command.
CliInterrupt ==
    /\ cli.stage = "ready"
    /\ cli.mode \in {"run", "interactive"}
    /\ pc \in {"plan", "execute", "verify", "analyze"}
    /\ LET h == on_keyboard_interrupt(cli.mode,
                                      [fs |-> fs, backups |-> backups])
       IN  /\ cli' = [cli EXCEPT !.stage = h.stage,
                                 !.exit_code = h.exit_code,
                                 !.interrupted = TRUE]
           /\ fs' = h.disk.fs
           /\ backups' = h.disk.backups
    /\ pc' = "cancelled"
    /\ UNCHANGED <<max_iterations, max_context_size, conversation_history,
                   nextId, lastCompact, lastCheck, lastApply, lastGenerate>>
    /\ UNCHANGED <<task_status, phase, iteration, should_continue,
                   completion_reason, planning_state, execution_state,
                   verification_result, result, passes, everSuccess,
                   lastRequest, lastFeedback>>
    /\ UNCHANGED harnessVars
    /\ UNCHANGED <<active_subagents, dispatches, retry, session>>

\* run() has returned its dictionary: the command prints it; `run` returns,
\* `interactive` goes on to its next prompt.
CliReport ==
    /\ cli.stage = "ready"
    /\ cli.mode \in {"run", "interactive"}
    /\ pc \in {"done", "failed"}
    /\ cli' = [cli EXCEPT
                  !.stage = IF cli.mode = "run" THEN "exited" ELSE "prompt",
                  !.exit_code = IF cli.mode = "run" THEN "0" ELSE "None",
                  !.announced = announce(result)]
    /\ UNCHANGED <<max_iterations, max_context_size, conversation_history,
                   nextId, lastCompact, lastCheck>>
    /\ UNCHANGED orchVars
    /\ UNCHANGED diskVars
    /\ UNCHANGED harnessVars
    /\ UNCHANGED <<active_subagents, dispatches, retry, session>>

NextCli ==
    \/ CliStart
    \/ cli.stage = "ready" /\ Next
    \/ CliInterrupt
    \/ CliReport

\* one task of one iteration is enough for a run that writes files
InitCli ==
    /\ max_iterations = 1
    /\ max_context_size = 10
    /\ conversation_history = <<>>
    /\ nextId = 1
    /\ pc = "idle"
    /\ task_status = "pending"
    /\ phase = "planning"
    /\ iteration = 0
    /\ should_continue = TRUE
    /\ completion_reason = "None"
    /\ planning_state = NoPlanningState
    /\ execution_state = NoExecutionState
    /\ verification_result = NoVerificationResult
    /\ result = NoResult
    /\ passes = NoPasses
    /\ everSuccess = FALSE
    /\ lastCompact = NoCompact
    /\ lastCheck = NoCheck
    /\ fs = DefaultWorkspace
    /\ backups = NoBackups
    /\ lastApply = NoApply
    /\ lastGenerate = NoGenerate
    /\ project = DefaultProject
    /\ process = "none"
    /\ lastRun = NoRun
    /\ lastRequest = NoRequest
    /\ cli \in Clis
    /\ active_subagents = NoSubAgents
    /\ dispatches = NoDispatches
    /\ lastFeedback = NoFeedback
    /\ retry = NoRetry
    /\ session = NoSession

SpecCli == InitCli /\ [][NextCli]_vars

\* ------------------------------------- SubAgentDispatcher used directly
\* dispatch(task) up to its await: the SubAgent is stored under the task's
\* id, replacing what another dispatch stored there.
DispatchStart(d, id) ==
    /\ dispatches[d].status = "idle"
    /\ active_subagents' = [active_subagents EXCEPT ![id] = d]
    /\ dispatches' = [dispatches EXCEPT ![d] =
                         [status |-> "awaiting", task |-> id,
                          result |-> "None"]]
    /\ UNCHANGED <<max_iterations, max_context_size, conversation_history,
                   nextId, lastCompact, lastCheck, cli, retry, session>>
    /\ UNCHANGED orchVars
    /\ UNCHANGED diskVars
    /\ UNCHANGED harnessVars

\* subagent.execute() returns and dispatch runs to its end: the result is
\* stored in the task and the entry under the task's id deleted, a
\* KeyError if there is none.
DispatchFinish(d, done_at, fail_at) ==
    /\ dispatches[d].status = "awaiting"
    /\ LET id == dispatches[d].task
           r == execute(done_at, fail_at, SubAgentMaxIterations)
       IN  IF active_subagents[id] = 0
           THEN /\ dispatches' = [dispatches EXCEPT ![d] =
                                     [status |-> "raised", task |-> id,
                                      result |-> r]]
                /\ UNCHANGED active_subagents
           ELSE /\ dispatches' = [dispatches EXCEPT ![d] =
                                     [status |-> "returned", task |-> id,
                                      result |-> r]]
                /\ active_subagents' = [active_subagents EXCEPT ![id] = 0]
    /\ UNCHANGED <<max_iterations, max_context_size, conversation_history,
                   nextId, lastCompact, lastCheck, cli, retry, session>>
    /\ UNCHANGED orchVars
    /\ UNCHANGED diskVars
    /\ UNCHANGED harnessVars

\* The task awaiting dispatch is cancelled: the CancelledError passes
\* through execute's `except Exception` and through dispatch.
DispatchCancel(d) ==
    /\ dispatches[d].status = "awaiting"
    /\ dispatches' = [dispatches EXCEPT ![d].status = "cancelled"]
    /\ UNCHANGED active_subagents
    /\ UNCHANGED <<max_iterations, max_context_size, conversation_history,
                   nextId, lastCompact, lastCheck, cli, retry, session>>
    /\ UNCHANGED orchVars
    /\ UNCHANGED diskVars
    /\ UNCHANGED harnessVars

NextDispatch ==
    \/ \E d \in 1..MaxDispatches, id \in TaskIds : DispatchStart(d, id)
    \/ \E d \in 1..MaxDispatches,
          done_at \in {0, 2, SubAgentMaxIterations},
          fail_at \in {1, SubAgentMaxIterations} :
          DispatchFinish(d, done_at, fail_at)
    \/ \E d \in 1..MaxDispatches : DispatchCancel(d)

\* the dispatcher of a session whose orchestrator has been built
InitDispatch == Init /\ max_iterations = MaxN /\ max_context_size = 10

SpecDispatch == InitDispatch /\ [][NextDispatch]_vars

\* ------------------------------------ generate_with_retry used directly
\* One pass through the for loop of generate_with_retry: the call of
\* generate, and on its failure the re-raise (last pass) or the sleep.
RetryPass ==
    /\ retry.status = "running"
    /\ retry.attempt < retry.max_retries
    /\ LET attempt == retry.attempt
           g == generate(IF retry.fails[attempt + 1] THEN 1 ELSE 0)
           called == Append(retry.log, 0)
       IN  retry' =
             IF ~g.raised
             THEN [retry EXCEPT !.attempt = attempt + 1, !.log = called,
                                !.status = "returned"]
             ELSE IF attempt = retry.max_retries - 1
             THEN [retry EXCEPT !.attempt = attempt + 1, !.log = called,
                                !.status = "raised", !.error = attempt + 1]
             ELSE [retry EXCEPT !.attempt = attempt + 1,
                                !.log = Append(called, wait_time(attempt))]
    /\ UNCHANGED <<max_iterations, max_context_size, conversation_history,
                   nextId, lastCompact, lastCheck>>
    /\ UNCHANGED orchVars
    /\ UNCHANGED diskVars
    /\ UNCHANGED harnessVars
    /\ UNCHANGED <<cli, active_subagents, dispatches, session>>

\* The loop ended without a return or a re-raise (range(max_retries) was
\* empty): raise RuntimeError("Max retries exceeded").
RetryExhausted ==
    /\ retry.status = "running"
    /\ retry.attempt >= retry.max_retries
    /\ retry' = [retry EXCEPT !.status = "raised", !.error = -1]
    /\ UNCHANGED <<max_iterations, max_context_size, conversation_history,
                   nextId, lastCompact, lastCheck>>
    /\ UNCHANGED orchVars
    /\ UNCHANGED diskVars
    /\ UNCHANGED harnessVars
    /\ UNCHANGED <<cli, active_subagents, dispatches, session>>

NextRetry == RetryPass \/ RetryExhausted

RetryCalls ==
    {RetryCall(m, f) : m \in 0..MaxRetries,
                       f \in [1..MaxRetries -> BOOLEAN]}

InitRetry ==
    /\ max_iterations = MaxN
    /\ max_context_size = 10
    /\ conversation_history = <<>>
    /\ nextId = 1
    /\ pc = "idle"
    /\ task_status = "pending"
    /\ phase = "planning"
    /\ iteration = 0
    /\ should_continue = TRUE
    /\ completion_reason = "None"
    /\ planning_state = NoPlanningState
    /\ execution_state = NoExecutionState
    /\ verification_result = NoVerificationResult
    /\ result = NoResult
    /\ passes = NoPasses
    /\ everSuccess = FALSE
    /\ lastCompact = NoCompact
    /\ lastCheck = NoCheck
    /\ fs = DefaultWorkspace
    /\ backups = NoBackups
    /\ lastApply = NoApply
    /\ lastGenerate = NoGenerate
    /\ project = DefaultProject
    /\ process = "none"
    /\ lastRun = NoRun
    /\ lastRequest = NoRequest
    /\ cli = DefaultCli
    /\ active_subagents = NoSubAgents
    /\ dispatches = NoDispatches
    /\ lastFeedback = NoFeedback
    /\ retry \in RetryCalls
    /\ session = NoSession

SpecRetry == InitRetry /\ [][NextRetry]_vars

\* ------------------------------------ one orchestrator, several tasks
\* run() has returned and its caller (the loop of `interactive`) comes
\* with the next task: the orchestrator and its context manager are the
\* same objects; ids from first_id on belong to the new run.
TaskReturned ==
    /\ pc \in {"done", "failed"}
    /\ session.tasks + 1 < MaxTasks
    /\ session' = [tasks |-> session.tasks + 1, first_id |-> nextId]
    /\ pc' = "idle"
    /\ UNCHANGED <<max_iterations, max_context_size, conversation_history,
                   nextId, lastCompact, lastCheck>>
    /\ UNCHANGED <<task_status, phase, iteration, should_continue,
                   completion_reason, planning_state, execution_state,
                   verification_result, result, passes, everSuccess,
                   lastRequest, lastFeedback>>
    /\ UNCHANGED diskVars
    /\ UNCHANGED harnessVars
    /\ UNCHANGED <<cli, active_subagents, dispatches, retry>>

NextSession == Next \/ TaskReturned

\* tasks of one iteration each
InitSession == Init /\ max_iterations = 1 /\ max_context_size = 10

SpecSession == InitSession /\ [][NextSession]_vars

\* ===================================================================
\* Claims
\* ===================================================================
Over == {"done", "failed"}
AllPasses(n) == [plan |-> n, execute |-> n, verify |-> n, analyze |-> n]

\* C1 (as stated): for every max_iterations N the configuration accepts, a
\* run in which no iteration passes verification returns after exactly N
\* full plan/execute/verify/analyze cycles, with
\* completion_reason = "max_iterations" and status = completed.
C1_ExactlyNCycles ==
    (pc = "done" /\ ~everSuccess) =>
        /\ passes = AllPasses(max_iterations)
        /\ result.iterations = max_iterations
        /\ result.completion_reason = "max_iterations"
        /\ result.status = "completed"

\* C1, what the code does: the iteration budget is tested after the first
\* cycle has run, so a budget of 0 still runs one cycle.
C1_AtLeastOneCycle ==
    (pc = "done" /\ ~everSuccess) =>
        /\ passes = AllPasses(Max2(max_iterations, 1))
        /\ result.iterations = Max2(max_iterations, 1)
        /\ result.completion_reason = "max_iterations"
        /\ result.status = "completed"

C1_ZeroBudgetRun ==
    pc = "done" /\ ~everSuccess /\ max_iterations = 0 /\ passes = AllPasses(1)

\* C2: when the k-th iteration (k < max_iterations) verifies with
\* tests_passed and quality_score >= 0.7, its Analyzing pass ends the run:
\* completion_reason = "success", status = completed, the reported
\* iteration count is k, k Planning passes were made, and no phase runs
\* after the run is over.
C2_SuccessStops ==
    [][ /\ ( /\ pc = "analyze"
             /\ verification_result.tests_passed
             /\ verification_result.quality_score >= 70
             /\ iteration + 1 < max_iterations )
          => /\ pc' = "done"
             /\ completion_reason' = "success"
             /\ task_status' = "completed"
             /\ result' = [set |-> TRUE, status |-> "completed",
                           iterations |-> iteration + 1,
                           completion_reason |-> "success", error |-> "None"]
             /\ passes'.plan = iteration + 1
        /\ pc = "done" => pc' = "done" ]_vars

C2_StoppedAtThreshold ==
    /\ pc = "done"
    /\ completion_reason = "success"
    /\ verification_result.quality_score = 70
    /\ result.iterations = 2
    /\ max_iterations = 3

\* C3: after Verifying, tests_passed is true exactly when a TestOutcome was
\* obtained with failed = 0 and passed > 0; no outcome, or passed = 0 and
\* failed = 0, gives tests_passed = false.
C3_TestsPassedIff ==
    verification_result.set =>
        LET tr == verification_result.test_results
        IN  verification_result.tests_passed
               <=> (tr.set /\ tr.failed = 0 /\ tr.passed > 0)

C3_NoTestsNotPassing ==
    /\ pc = "analyze"
    /\ verification_result.test_results.set
    /\ verification_result.test_results.passed = 0
    /\ verification_result.test_results.failed = 0
    /\ ~verification_result.tests_passed

\* C4 (as stated): the phases of a run follow Planning, Executing,
\* Verifying, Analyzing in a cycle, starting with Planning; after Analyzing
\* comes Planning or the end of the run; a run is over only from Analyzing,
\* never directly from Planning, Executing or Verifying.
C4_OverOnlyFromAnalyzing ==
    [][ /\ pc = "idle" => pc' = "plan"
        /\ pc = "plan" => pc' = "execute"
        /\ pc = "execute" => pc' = "verify"
        /\ pc = "verify" => pc' = "analyze"
        /\ pc = "analyze" => pc' \in {"plan"} \cup Over
        /\ (pc' \in Over /\ pc \notin Over) => pc = "analyze" ]_vars

\* C4 (amended): the same order; the workflow's END (a normal return, with
\* status = completed and a completion_reason) is entered from Analyzing
\* only; the one other exit is the abort of the run by an uncaught error,
\* which leaves Planning with status = failed; a run that is over stays over.
C4_PhaseOrder ==
    [][ /\ pc = "idle" => pc' = "plan"
        /\ pc = "plan" => pc' \in {"execute", "failed"}
        /\ pc = "execute" => pc' = "verify"
        /\ pc = "verify" => pc' = "analyze"
        /\ pc = "analyze" => pc' \in {"plan", END}
        /\ pc' = END => pc \in {"analyze", END}
        /\ pc' = "failed" => result'.status = "failed"
        /\ (pc' = END /\ pc # END) =>
               /\ result'.status = "completed"
               /\ result'.completion_reason # "None"
        /\ pc \in Over => pc' = pc ]_vars

C4_SecondCycleEnded ==
    pc = END /\ passes = AllPasses(2)

\* C5: completion_reason is set exactly when should_continue is false, and
\* a set completion_reason is "success" or "max_iterations".
C5_ReasonIffStopped ==
    /\ (completion_reason # "None") <=> (should_continue = FALSE)
    /\ completion_reason \in {"None", "success", "max_iterations"}

C5_StoppedWithReason ==
    /\ should_continue = FALSE
    /\ completion_reason = "max_iterations"
    /\ iteration = 3

\* C6: a run's state starts with iteration = 0, should_continue = true and
\* phase = planning; iteration never decreases, only Analyzing changes it,
\* and every Analyzing pass adds exactly 1.
C6_IterationCounts ==
    /\ (iteration = 0 /\ should_continue = TRUE /\ phase = "planning")
    /\ [][ /\ iteration' >= iteration
           /\ iteration' # iteration => pc = "analyze"
           /\ pc = "analyze" => iteration' = iteration + 1
           /\ pc = "idle" =>
                 (iteration' = 0 /\ should_continue' = TRUE
                  /\ phase' = "planning") ]_vars

C6_TwoPassesCounted ==
    pc = "plan" /\ iteration = 2 /\ passes.analyze = 2

\* C7: the quality_score of every VerificationRecord lies in [0,1].
C7_QualityInUnitInterval ==
    verification_result.quality_score \in 0..100

\* ---- ContextManager claims, under SpecCtx
RECURSIVE TokensOfFirst(_, _)
TokensOfFirst(h, n) ==
    IF n = 0 THEN 0 ELSE TokensOfFirst(h, n - 1) + h[n].tokens
TotalTokens(h) == TokensOfFirst(h, Len(h))

\* C8: should_compact() is false when the token total of the stored
\* messages is at most 0.8 x max_context_size and true when it exceeds it.
C8_CompactThreshold ==
    lastCheck.called =>
        LET total == TotalTokens(lastCheck.history)
        IN  /\ (5 * total <= 4 * max_context_size) => ~lastCheck.answer
            /\ (5 * total > 4 * max_context_size) => lastCheck.answer

C8_AtThreshold ==
    /\ lastCheck.called
    /\ 5 * TotalTokens(lastCheck.history) = 4 * max_context_size
    /\ ~lastCheck.answer

\* The partition the specification describes: all system messages, the last
\* k messages, and what lies between them.
LastK(h, k) == SubSeq(h, Max2(Len(h) - k, 0) + 1, Len(h))
Between(h, k) ==
    LET n == Len(system_messages(h))
    IN  IF Len(h) - k <= n THEN <<>> ELSE SubSeq(h, n + 1, Len(h) - k)

\* C9 (as stated): for every keep_recent >= 0, a compact whose summary
\* request does not fail leaves the history unchanged when the middle is
\* empty, and otherwise leaves the system messages, one system-role
\* summary, and the last keep_recent messages, in that order.
C9_CompactRebuilds ==
    (lastCompact.called /\ lastCompact.generate # "failed") =>
        LET h == lastCompact.before
            k == lastCompact.keep_recent
            a == lastCompact.after
            n == Len(system_messages(h))
        IN  IF Between(h, k) = <<>>
            THEN a = h
            ELSE /\ Len(a) = n + 1 + Len(LastK(h, k))
                 /\ SubSeq(a, 1, n) = system_messages(h)
                 /\ a[n + 1].role = "system"
                 /\ \A i \in 1..Len(h) : a[n + 1].id # h[i].id
                 /\ SubSeq(a, n + 2, Len(a)) = LastK(h, k)

\* C9 restricted to keep_recent >= 1, where the code agrees with it.
C9_CompactRebuildsPositiveKeep ==
    lastCompact.keep_recent >= 1 => C9_CompactRebuilds

\* C10: when the summary request of compact fails, compact returns
\* normally with the history reduced to the system messages followed by the
\* last keep_recent messages (no summary message), and the run goes on to
\* its plan request: it does not end because of the failed summary.
C10_SummaryFailureDropsMiddle ==
    (lastCompact.called /\ lastCompact.generate = "failed") =>
        LET h == lastCompact.before
        IN  /\ ~lastCompact.raised
            /\ lastCompact.after =
                  system_messages(h) \o LastK(h, lastCompact.keep_recent)
            /\ Len(lastCompact.after) < Len(h)
            /\ result.error # "summary request"
            /\ pc = "failed" => result.error = "plan request"

C10_RunWentOnAfterFailedSummary ==
    /\ lastCompact.called
    /\ lastCompact.generate = "failed"
    /\ pc = "execute"
    /\ planning_state.set

\* ---- ChangeApplier claims, under SpecApply
\* the change hits an error: content missing for a create or update, or a
\* file access that goes wrong on the way
ChangeFails(change, before, fault) ==
    LET there == before.fs[change.file_path] # Absent
    IN  \/ /\ change.operation \in {"create", "update"}
           /\ change.content \in {NoContent, ""}
        \/ /\ change.operation \in {"create", "update"}
           /\ change.content \notin {NoContent, ""}
           /\ (fault = "final" \/ (fault = "backup" /\ there))
        \/ /\ change.operation = "delete"
           /\ there
           /\ fault # "none"

\* what a change that is applied leaves at its path
ContentAfter(change) ==
    IF change.operation = "delete" THEN Absent ELSE change.content

\* the changes of the last batch that were applied to path p
AppliedTo(p) ==
    {i \in 1..Len(lastApply.steps) :
        /\ lastApply.changes[i].file_path = p
        /\ lastApply.changes[i].operation \in {"create", "update", "delete"}
        /\ ~lastApply.steps[i].raised}

SetMax(S) == CHOOSE m \in S : \A x \in S : x <= m

\* C11: in commit mode every change of the batch is attempted, in list
\* order, each on the disk its predecessor left; a change that fails gives a
\* result with success = false and an error text, a change that does not
\* fail gives success = true and is on disk after its step; after the call
\* every path holds what the last successful change to it wrote (nothing is
\* rolled back because another change failed).
C11_FailuresIsolated ==
    (lastApply.called /\ ~lastApply.preview) =>
        LET ch == lastApply.changes
            st == lastApply.steps
        IN  /\ Len(st) = Len(ch)
            /\ \A i \in 1..Len(ch) :
                  /\ i > 1 => st[i].before = st[i - 1].after
                  /\ i = Len(ch) =>
                        (st[i].after.fs = fs /\ st[i].after.backups = backups)
                  /\ ChangeFails(ch[i], st[i].before, lastApply.faults[i]) =>
                        /\ Len(st[i].results) = 1
                        /\ st[i].results[1].success = FALSE
                        /\ st[i].results[1].error # "None"
                        /\ st[i].results[1].file_path = ch[i].file_path
                  /\ ( /\ ~ChangeFails(ch[i], st[i].before, lastApply.faults[i])
                       /\ ch[i].operation \in {"create", "update", "delete"} ) =>
                        /\ Len(st[i].results) = 1
                        /\ st[i].results[1].success = TRUE
                        /\ st[i].results[1].file_path = ch[i].file_path
                        /\ st[i].after.fs[ch[i].file_path] = ContentAfter(ch[i])
            /\ \A p \in Paths :
                  IF AppliedTo(p) = {}
                  THEN st = <<>> \/ fs[p] = st[1].before.fs[p]
                  ELSE fs[p] = ContentAfter(ch[SetMax(AppliedTo(p))])

\* a batch whose first change was applied, whose second failed, and the
\* first is still on disk
C11_FailedAfterApplied ==
    /\ lastApply.called
    /\ ~lastApply.preview
    /\ Len(lastApply.changes) = 2
    /\ ~lastApply.steps[1].raised
    /\ lastApply.changes[1].operation = "create"
    /\ lastApply.steps[2].raised
    /\ lastApply.results[2].success = FALSE
    /\ lastApply.changes[1].file_path # lastApply.changes[2].file_path
    /\ fs[lastApply.changes[1].file_path] = "v1"

\* C12: in commit mode a create or update whose content is missing (None)
\* or empty is rejected before anything is done for it: its result is a
\* failure, no file is created or modified and no backup is made by it.
C12_MissingContentRejected ==
    (lastApply.called /\ ~lastApply.preview) =>
        \A i \in 1..Len(lastApply.changes) :
            LET c == lastApply.changes[i]
            IN  ( /\ c.operation \in {"create", "update"}
                  /\ c.content \in {NoContent, ""} ) =>
                    /\ i <= Len(lastApply.steps)
                    /\ lastApply.steps[i].results =
                          <<[file_path |-> c.file_path,
                             operation |-> c.operation, success |-> FALSE,
                             error |-> "Content required for create/update",
                             diff |-> NoDiff]>>
                    /\ lastApply.steps[i].after.fs = lastApply.steps[i].before.fs
                    /\ lastApply.steps[i].after.backups =
                          lastApply.steps[i].before.backups

\* an update with empty content of a file that exists was refused, and the
\* file and the backup directory are as they were
C12_EmptyUpdateOfExistingFile ==
    /\ lastApply.called
    /\ ~lastApply.preview
    /\ Len(lastApply.changes) = 1
    /\ lastApply.changes[1] = CodeChange(<<"a", "x">>, "update", "")
    /\ lastApply.steps[1].before.fs[<<"a", "x">>] = "a0"
    /\ fs[<<"a", "x">>] = "a0"
    /\ backups = NoBackups
    /\ lastApply.results[1].success = FALSE

\* C13: apply_changes in preview mode leaves every workspace file and the
\* backup directory exactly as they were, for any change list.
C13_PreviewLeavesDisk ==
    [][ (lastApply'.called /\ lastApply'.preview) =>
            (fs' = fs /\ backups' = backups) ]_vars

\* a preview of an update and a delete of files that exist returned a
\* unified diff and both files are still what they were
C13_PreviewedUpdateAndDelete ==
    /\ lastApply.called
    /\ lastApply.preview
    /\ lastApply.changes = <<CodeChange(<<"a", "x">>, "update", "v2"),
                             CodeChange(<<"b", "x">>, "delete", NoContent)>>
    /\ Len(lastApply.results) = 2
    /\ lastApply.results[1].diff =
          [kind |-> "unified", old |-> "a0", new |-> "v2"]
    /\ lastApply.results[2].success
    /\ fs[<<"a", "x">>] = "a0"
    /\ fs[<<"b", "x">>] = "b0"
    /\ backups = NoBackups

\* the change of step i is a write with content or a delete, of a file that
\* is there when the step starts
TouchesExisting(i) ==
    LET c == lastApply.changes[i]
    IN  /\ lastApply.steps[i].before.fs[c.file_path] # Absent
        /\ \/ c.operation = "delete"
           \/ /\ c.operation \in {"create", "update"}
              /\ c.content \notin {NoContent, ""}

\* C14: when a commit overwrites or deletes an existing file, the backup is
\* made first: right after the operation the backup directory holds a file
\* equal to the content the file had just before it, and an operation whose
\* backup could not be written has not touched the file.
C14_BackupBeforeChange ==
    (lastApply.called /\ ~lastApply.preview) =>
        \A i \in 1..Len(lastApply.steps) :
            LET st == lastApply.steps[i]
                p == lastApply.changes[i].file_path
            IN  TouchesExisting(i) =>
                  /\ ~st.raised =>
                        /\ st.after.fs[p] = ContentAfter(lastApply.changes[i])
                        /\ \E b \in BackupNames :
                              st.after.backups[b] = st.before.fs[p]
                  /\ lastApply.faults[i] = "backup" =>
                        /\ st.raised
                        /\ st.after.fs = st.before.fs
                  /\ st.after.fs[p] # st.before.fs[p] =>
                        \E b \in BackupNames :
                            st.after.backups[b] = st.before.fs[p]

\* a file was overwritten in one second and deleted in the next: the backup
\* directory holds the original and the overwritten version
C14_OverwrittenThenDeleted ==
    /\ lastApply.called
    /\ ~lastApply.preview
    /\ lastApply.changes = <<CodeChange(<<"a", "x">>, "update", "v2"),
                             CodeChange(<<"a", "x">>, "delete", NoContent)>>
    /\ lastApply.steps[1].before.fs[<<"a", "x">>] = "a0"
    /\ fs[<<"a", "x">>] = Absent
    /\ backups[<<"x", 0>>] = "a0"
    /\ backups[<<"x", 1>>] = "v2"

\* C15: after a batch of commits, whatever the paths and however close in
\* time the changes, the backup directory holds a copy of every file version
\* that was overwritten or deleted, and no step replaced or removed a backup
\* that was already there.
C15_BackupsNeverLost ==
    (lastApply.called /\ ~lastApply.preview) =>
        \A i \in 1..Len(lastApply.steps) :
            LET st == lastApply.steps[i]
                p == lastApply.changes[i].file_path
            IN  /\ ( /\ st.before.fs[p] # Absent
                     /\ st.after.fs[p] # st.before.fs[p] ) =>
                        \E b \in BackupNames : backups[b] = st.before.fs[p]
                /\ \A b \in BackupNames :
                      st.before.backups[b] # Absent =>
                          st.after.backups[b] = st.before.backups[b]

\* ---- TestRunner and ScriptRunner claims, under SpecHarness
\* the last call started an external process
StartedProcess ==
    /\ lastRun.called
    /\ lastRun.run.how # "spawn error"
    /\ \/ lastRun.who = "run_tests" /\ lastRun.asked \in Supported
       \/ lastRun.who = "run_script" /\ lastRun.arg = "script"
       \/ lastRun.who = "run_command"

\* C16: for every process started by run_tests or by the script runner, a
\* timeout ends with the process killed and reaped before the call returns:
\* no process is running once the call has returned, and the result reports
\* the timeout (for run_tests with zero counts).
C16_TimedOutProcessGone ==
    lastRun.called =>
        /\ process # "running"
        /\ (StartedProcess /\ lastRun.run.how = "timeout") =>
              /\ process = "killed and reaped"
              /\ lastRun.who = "run_tests" =>
                    /\ lastRun.test_result.output = "Tests timed out"
                    /\ lastRun.test_result.passed = 0
                    /\ lastRun.test_result.failed = 0
                    /\ lastRun.test_result.skipped = 0
              /\ lastRun.who # "run_tests" =>
                    lastRun.script_result.error = "timed out"

\* C16, the script runner's half, where the code agrees: run_script and
\* run_command kill and reap on timeout.
C16_ScriptRunnerReaps ==
    (lastRun.called /\ lastRun.who # "run_tests") => C16_TimedOutProcessGone

\* C17: run_tests never raises; when the test process cannot be started,
\* times out, or the framework is unsupported or unknown, it returns a
\* result with passed = failed = skipped = 0 and an output that says what
\* happened.
C17_RunTestsNeverRaises ==
    (lastRun.called /\ lastRun.who = "run_tests") =>
        /\ ~lastRun.raised
        /\ ( \/ lastRun.run.how \in {"spawn error", "timeout"}
             \/ lastRun.asked \notin Supported ) =>
              /\ lastRun.test_result.passed = 0
              /\ lastRun.test_result.failed = 0
              /\ lastRun.test_result.skipped = 0
              /\ lastRun.test_result.output \in
                    {"Error running tests", "Tests timed out",
                     "Unsupported test framework"}

\* C17 where the code agrees with it: when the workspace can be probed, or
\* the caller names the framework, run_tests returns as the claim says.
C17_DegradesOnceDetected ==
    (project.probe = "ok" \/ lastRun.arg # "None") => C17_RunTestsNeverRaises

\* C18: the framework run_tests goes by is the caller's, when one is
\* passed; otherwise one whose marker file is present; otherwise the one
\* declared as a dependency in the manifest; otherwise the one the source
\* files suggest; otherwise "unknown".  A signal of lower priority never
\* overrides one of higher priority.
C18_DetectionPriority ==
    (lastRun.called /\ lastRun.who = "run_tests" /\ ~lastRun.raised) =>
        LET a == lastRun.asked
            marker == project.pytestMarker \/ project.jestMarker
            declared == project.manifest = "jest"
        IN  /\ lastRun.arg # "None" => a = lastRun.arg
            /\ lastRun.arg = "None" =>
                  /\ marker => \/ a = "pytest" /\ project.pytestMarker
                               \/ a = "jest" /\ project.jestMarker
                  /\ (~marker /\ declared) => a = "jest"
                  /\ (~marker /\ ~declared /\ project.pyFiles) => a = "pytest"
                  /\ (~marker /\ ~declared /\ ~project.pyFiles) => a = "unknown"
            /\ lastRun.test_result.framework =
                  IF a \in Supported THEN a ELSE "unknown"

\* detection went by the manifest's jest dependency although the tree has
\* Python sources
C18_ManifestBeatsSources ==
    /\ lastRun.called
    /\ lastRun.who = "run_tests"
    /\ lastRun.arg = "None"
    /\ ~project.pytestMarker
    /\ ~project.jestMarker
    /\ project.manifest = "jest"
    /\ project.pyFiles
    /\ lastRun.asked = "jest"
    /\ lastRun.test_result.framework = "jest"

\* ---- judge fallback, under Spec
\* C19: when the judge call fails during Verifying the run is not aborted
\* (Analyzing follows), and the record gets quality_score 0.7 if its
\* tests_passed is true and 0.3 otherwise, with the issue that the
\* judgment was unavailable.
C19_FallbackFollowsTestsPassed ==
    [][ (pc = "verify" /\ verification_result'.llm_judgment = "fallback") =>
            /\ pc' = "analyze"
            /\ verification_result'.quality_score =
                  IF verification_result'.tests_passed THEN 70 ELSE 30
            /\ "LLM judgment unavailable" \in verification_result'.issues
      ]_vars

\* C19, what the code does: the fallback score goes by the words of the
\* test output (contains "passed" and not "failed"), not by tests_passed.
C19_FallbackFollowsOutputText ==
    [][ (pc = "verify" /\ verification_result'.llm_judgment = "fallback") =>
            LET tr == verification_result'.test_results
            IN  /\ pc' = "analyze"
                /\ verification_result'.quality_score =
                      IF tr.saysPassed /\ ~tr.saysFailed THEN 70 ELSE 30
                /\ "LLM judgment unavailable" \in verification_result'.issues
      ]_vars

\* ---- structured generation, under Spec
\* C20: when structured generation of the change set fails, the Executing
\* phase still ends normally: the change set is empty, nothing is applied
\* (no file written or deleted, no backup made), and Verifying follows, then
\* Analyzing.
C20_FailedGenerationAppliesNothing ==
    [][ /\ ( /\ pc = "execute"
             /\ lastGenerate'.called
             /\ lastGenerate'.outcome = "failed" ) =>
               /\ pc' = "verify"
               /\ execution_state'.set
               /\ execution_state'.code_changes = 0
               /\ lastApply'.changes = <<>>
               /\ lastApply'.results = <<>>
               /\ fs' = fs
               /\ backups' = backups
        /\ pc = "verify" => pc' = "analyze" ]_vars

\* generation failed after a change had been read from the answer; the run
\* went on to Analyzing with the workspace untouched
C20_WentOnAfterFailedGeneration ==
    /\ pc = "analyze"
    /\ lastGenerate.called
    /\ lastGenerate.outcome = "failed"
    /\ lastGenerate.parsed # <<>>
    /\ execution_state.set
    /\ execution_state.code_changes = 0
    /\ verification_result.set
    /\ fs = DefaultWorkspace
    /\ backups = NoBackups

\* C21 (as stated): a transport failure of the plan request is retried with
\* exponential backoff up to the attempt cap, as generate_with_retry does:
\* the request fails the run only when the backend fails every attempt the
\* cap allows, so a single failure followed by an answer does not fail it.
C21_TransientFailureRetried ==
    lastRequest.called =>
        LET retried == generate_with_retry(lastRequest.outage,
                                           DefaultMaxRetries)
        IN  /\ lastRequest.raised = retried.raised
            /\ lastRequest.attempts = retried.attempts
            /\ (lastRequest.outage = 1 => pc # "failed")

\* C22 (as stated): when a phase raises, run() returns status = failed (never
\* completed) together with the number of Analyzing passes completed before
\* the error.
C22_FailedReportsIterationsReached ==
    pc = "failed" =>
        /\ result.set
        /\ result.status = "failed"
        /\ result.iterations = iteration
        /\ result.iterations = passes.analyze

\* C23 (as stated): whatever way a dispatch ends (completed, failed,
\* iteration cap, cancelled while awaiting), its entry is gone from
\* active_subagents when control leaves dispatch, so get_active_count() is 0
\* whenever no dispatch is in flight.
C23_RegistryEmptyWhenIdle ==
    /\ \A d \in 1..MaxDispatches :
          dispatches[d].status \in {"returned", "raised", "cancelled"} =>
              active_subagents[dispatches[d].task] # d
    /\ (\A d \in 1..MaxDispatches : dispatches[d].status # "awaiting") =>
          get_active_count(active_subagents) = 0

\* C24 (as stated): a cancellation during a run is caught by the command,
\* the program then terminates cleanly, and files and backups are left as
\* they were at the moment of cancellation.
C24_InterruptEndsProgram ==
    [][(pc # "cancelled" /\ pc' = "cancelled") =>
          /\ cli'.interrupted
          /\ cli'.stage = "exited"
          /\ cli'.exit_code = "0"
          /\ fs' = fs
          /\ backups' = backups]_vars

\* C24 (amended): a cancellation during a run is caught by the command
\* without an error exit: `run` returns normally, `interactive` goes back to
\* its prompt; in both, files and backups are left as they were at the
\* moment of cancellation and stay so.
C24_InterruptLeavesDisk ==
    [][/\ (pc # "cancelled" /\ pc' = "cancelled") =>
              /\ cli'.interrupted
              /\ cli'.stage = IF cli.mode = "run" THEN "exited" ELSE "prompt"
              /\ cli'.exit_code # "1"
              /\ cli'.error = "None"
              /\ fs' = fs
              /\ backups' = backups
       /\ (pc = "cancelled" => fs' = fs /\ backups' = backups)]_vars

\* a run cancelled after Executing overwrote a file and made its backup
C24_InterruptedAfterWrite ==
    /\ pc = "cancelled"
    /\ cli.interrupted
    /\ passes.execute = 1
    /\ fs # DefaultWorkspace
    /\ backups # NoBackups

\* C25: a configured provider name that is neither "openai" nor "ollama"
\* makes the provider's creation fail with ValueError: no orchestrator is
\* built and no phase runs.
C25_UnknownProviderBuildsNothing ==
    (cli.stage # "start" /\ cli.configured \notin {"openai", "ollama"}) =>
        /\ cli.stage = "error"
        /\ cli.error = "ValueError"
        /\ ~cli.orchestrator
        /\ pc = "idle"
        /\ passes = NoPasses
        /\ conversation_history = <<>>
        /\ fs = DefaultWorkspace
        /\ backups = NoBackups

\* `run --provider invalid` has ended in its error branch
C25_RunWithInvalidProvider ==
    /\ cli.mode = "run"
    /\ cli.option = "invalid"
    /\ cli.configured = "invalid"
    /\ cli.stage = "error"

\* the states from the end of a Verifying pass to the next Planning pass:
\* execution_state, lastGenerate and lastApply are those of the iteration's
\* Executing pass, verification_result that of its Verifying pass
AfterVerifying == passes.verify >= 1 /\ pc \in {"analyze", "plan", "done"}
AfterAnalyzing ==
    passes.analyze >= 1 /\ passes.analyze = passes.verify
    /\ pc \in {"plan", "done"}

\* C26: Analyzing checks the budget before the success condition: once the
\* incremented iteration has reached max_iterations the run stops with
\* completion_reason = "max_iterations" whatever the verification says, and
\* "success" is the reason exactly when iteration < max_iterations,
\* tests_passed holds and quality_score >= 0.7.
C26_BudgetBeforeSuccess ==
    AfterAnalyzing =>
        LET vr == verification_result
            good == vr.set /\ vr.tests_passed
                    /\ vr.quality_score >= QualityThreshold
        IN  /\ iteration >= max_iterations =>
                  pc = "done" /\ completion_reason = "max_iterations"
            /\ completion_reason = "success" <=>
                  (iteration < max_iterations /\ good)
            /\ completion_reason = "success" => pc = "done"

\* the last iteration the budget allows passed verification, and the run
\* stopped for the budget
C26_PassedOnLastIteration ==
    /\ pc = "done"
    /\ max_iterations >= 2
    /\ iteration = max_iterations
    /\ VerificationPasses(verification_result)
    /\ completion_reason = "max_iterations"

C28_JudgeSeesOwnIteration ==
    AfterVerifying =>
        /\ verification_result.judged =>
              /\ lastGenerate.called
              /\ lastApply.called
              /\ execution_state.code_changes = Len(lastApply.changes)
        /\ ~lastGenerate.called =>
              /\ ~verification_result.judged
              /\ (AfterAnalyzing => completion_reason # "success")

\* C29: with no plan (missing or empty) Executing is a pass-through: no
\* change set is requested, nothing is previewed or applied, no file or
\* backup changes, the stored change set is left alone and Verifying is
\* next.
C29_NoPlanPassThrough ==
    [][(pc = "execute" /\ pc' # "execute"
        /\ (~planning_state.set \/ planning_state.plan = "")) =>
          /\ ~lastGenerate'.called
          /\ ~lastApply'.called
          /\ fs' = fs
          /\ backups' = backups
          /\ execution_state' = execution_state
          /\ pc' = "verify"]_vars

\* Executing has just passed an empty plan through
C29_EmptyPlanPassedThrough ==
    /\ pc = "verify"
    /\ planning_state.set
    /\ planning_state.plan = ""
    /\ passes.execute = passes.verify + 1
    /\ ~lastGenerate.called

Occurs(s, id) == Cardinality({i \in 1..Len(s) : s[i].id = id})

\* C30 (as stated, for keep_recent >= 1): a compact that rebuilds the
\* history accounts for each message exactly once: as a kept system
\* message, as a member of the summarized middle, or as a member of the kept
\* recent tail; the kept ones are in the new history once, the summarized
\* ones are not in it.
C30_CompactAccountsForAll ==
    (lastCompact.called /\ lastCompact.keep_recent >= 1
     /\ CallsGenerate(lastCompact.before, lastCompact.keep_recent)) =>
        LET h == lastCompact.before
            k == lastCompact.keep_recent
        IN  \A i \in 1..Len(h) :
               LET kept == Occurs(system_messages(h), h[i].id)
                           + Occurs(recent_messages(h, k), h[i].id)
                   mid == Occurs(messages_to_summarize(h, k), h[i].id)
               IN  /\ kept + mid = 1
                   /\ Occurs(lastCompact.after, h[i].id) = kept

\* C31 (as stated): the history sent to the provider during a later run of
\* the same orchestrator holds no message of an earlier run: once the plan
\* request of the run has been sent, every stored message was added by
\* this run, the first of them its system prompt.
C31_RunStartsFromOwnPrompt ==
    (session.tasks >= 1 /\ lastRequest.called) =>
        /\ \A i \in 1..Len(conversation_history) :
              conversation_history[i].id >= session.first_id
        /\ conversation_history[1].role = "system"
        /\ conversation_history[1].id = session.first_id

\* C32 (as stated): after the compaction Planning performs when
\* should_compact() is true, the stored history is within the configured
\* context size (checked on the history compaction leaves, before the
\* plan prompt is added to it).
C32_CompactedUnderBudget ==
    (lastCheck.called /\ lastCheck.answer /\ lastCompact.called) =>
        get_current_size(lastCompact.after) <= max_context_size

IsPrefixOf(s, t) == Len(s) <= Len(t) /\ SubSeq(t, 1, Len(s)) = s

\* C33 (as stated): within a run every change to the history adds messages
\* at its end: the history before a step is a prefix of the history after.
C33_AppendOnly ==
    [][pc # "idle" =>
          IsPrefixOf(conversation_history, conversation_history')]_vars

\* C33 (amended): within a run every change to the history either adds
\* messages at its end, or is a Planning pass that found the history over
\* the compaction threshold: that pass keeps the system messages and the
\* last 5 messages in order, drops the messages between them, puts at most
\* one new system-role summary in their place, and adds its own messages
\* at the end.
C33_AppendOnlyButCompaction ==
    [][pc # "idle" =>
          LET h == conversation_history
              sys == system_messages(h)
              rec == recent_messages(h, DefaultKeepRecent)
              n == Len(sys)
          IN  \/ IsPrefixOf(h, h')
              \/ /\ pc = "plan"
                 /\ should_compact(h, max_context_size)
                 /\ \/ IsPrefixOf(sys \o rec, h')
                    \/ /\ Len(h') > n
                       /\ h'[n + 1].role = "system"
                       /\ h'[n + 1].id = nextId
                       /\ IsPrefixOf(sys \o <<h'[n + 1]>> \o rec, h')
      ]_vars

\* a Planning pass of a run has rebuilt the history and sent its request
C33_CompactedDuringRun ==
    /\ pc = "execute"
    /\ lastCompact.called
    /\ lastCompact.after # lastCompact.before
    /\ ~IsPrefixOf(lastCompact.before, conversation_history)

\* C36: an Analyzing pass that continues appends exactly one message, a
\* user turn, whose feedback lists at most 3 error lines, 5 issues and 3
\* suggestions however many the verification record carries; an Analyzing
\* pass that stops appends nothing.
C36_BoundedFeedbackOnContinue ==
    [][(pc = "analyze" /\ pc' # "analyze") =>
          IF should_continue'
          THEN /\ pc' = "plan"
               /\ Len(conversation_history') = Len(conversation_history) + 1
               /\ IsPrefixOf(conversation_history, conversation_history')
               /\ conversation_history'[Len(conversation_history')].role
                     = "user"
               /\ lastFeedback'.called
               /\ lastFeedback'.excerpts <= 3
               /\ lastFeedback'.issues <= 5
               /\ lastFeedback'.suggestions <= 3
          ELSE /\ conversation_history' = conversation_history
               /\ ~lastFeedback'.called]_vars

\* feedback on a record with more error lines, issues and suggestions than
\* the message lists
C36_FeedbackCutShort ==
    /\ pc = "plan"
    /\ lastFeedback.called
    /\ lastFeedback.given.errors > 3 /\ lastFeedback.excerpts = 3
    /\ lastFeedback.given.issues > 5 /\ lastFeedback.issues = 5
    /\ lastFeedback.given.suggestions > 3 /\ lastFeedback.suggestions = 3

Calls(log) == Cardinality({i \in 1..Len(log) : log[i] = 0})

\* C40: generate_with_retry calls generate at most max_retries times and
\* stops at the first call that succeeds; it sleeps 2^attempt seconds (1, 2,
\* 4, ...) after a failed call that is not the last allowed one and at no
\* other time; when the last allowed call fails that call's error is raised
\* with no sleep after it; with max_retries >= 1 at least one call is made.
C40_RetryContract ==
    LET log == retry.log
        m == retry.max_retries
        over == retry.status \in {"returned", "raised"}
    IN  /\ Calls(log) <= m
        /\ \A i \in 1..Len(log) :
              IF i % 2 = 1 THEN log[i] = 0
              ELSE /\ log[i] = 2 ^ ((i \div 2) - 1)
                   /\ retry.fails[i \div 2]
                   /\ (i \div 2) < m
        /\ \A k \in 1..(Calls(log) - 1) : retry.fails[k]
        /\ retry.status = "returned" =>
              /\ ~retry.fails[Calls(log)]
              /\ log[Len(log)] = 0
        /\ (retry.status = "raised" /\ m >= 1) =>
              /\ Calls(log) = m
              /\ retry.fails[m]
              /\ retry.error = m
              /\ log[Len(log)] = 0
        /\ (over /\ m >= 1) => Calls(log) >= 1

\* three calls failed, with sleeps of 1 and 2 seconds between them
C40_GaveUpAfterThree ==
    /\ retry.status = "raised"
    /\ retry.max_retries = 3
    /\ retry.log = <<0, 1, 0, 2, 0>>

\* C34: apply_changes returns exactly one result record per change, in the
\* order of the change set, in preview and in commit mode and whatever the
\* operation string of a change.
C34_OneResultPerChange ==
    lastApply.called =>
        /\ Len(lastApply.results) = Len(lastApply.changes)
        /\ \A i \in 1..Len(lastApply.results) :
              /\ lastApply.results[i].file_path
                    = lastApply.changes[i].file_path
              /\ lastApply.results[i].operation
                    = lastApply.changes[i].operation

\* C35: when the dispatches in flight at the same time have all run to
\* their end (none was cancelled), tasks with the same id included, every
\* one of them has returned its sub-agent's result without raising and the
\* registry is empty.
C35_OverlappingDispatchesReturn ==
    (\A d \in 1..MaxDispatches : dispatches[d].status \in {"returned", "raised"})
        => /\ \A d \in 1..MaxDispatches :
                 /\ dispatches[d].status = "returned"
                 /\ dispatches[d].result \in
                       {"completed", "failed", "max_iterations_reached"}
           /\ get_active_count(active_subagents) = 0

RanTests ==
    /\ lastRun.called
    /\ lastRun.who = "run_tests"
    /\ ~lastRun.raised
    /\ lastRun.asked \in Supported
    /\ lastRun.run.how = "exits"

\* C37: for pytest, jest and unittest alike, a test run whose summary
\* reports an error or a failure gives a result the Verifying phase does
\* not count as passing (failed = 0 and passed > 0).
C37_ErrorsNeverPass ==
    (RanTests /\ (lastRun.run.report.errors > 0
                  \/ lastRun.run.report.failed > 0))
        => ~tests_passed_of(lastRun.test_result)

\* C38: every result run_tests returns has passed, failed and skipped at
\* least 0 and at most 10 error lines.
C38_CountsNonNegative ==
    (lastRun.called /\ lastRun.who = "run_tests" /\ ~lastRun.raised) =>
        /\ lastRun.test_result.passed >= 0
        /\ lastRun.test_result.failed >= 0
        /\ lastRun.test_result.skipped >= 0
        /\ lastRun.test_result.error_messages <= 10

\* C39: the command announces success only for a run whose
\* completion_reason is "success".
C39_SuccessAnnouncedOnlyOnSuccess ==
    cli.announced = "success" =>
        /\ result.set
        /\ result.completion_reason = "success"
====
